---- MODULE Spec2Model ----
(***************************************************************************)
(* Cinema Pro HDR: the parameter model (CphParams), the error handler with *)
(* its log throttler (ErrorHandler, LogThrottler) and the frame processor  *)
(* (CphProcessor), modelled as state machines.                             *)
(*                                                                         *)
(* float encoding.  A float is an integer count of thousandths (0.175f is  *)
(* 175).  +Inf and -Inf are the integers PInf and NInf, which lie beyond   *)
(* every finite value of the model, so that the integer order is the float *)
(* order on them.  NaN is a further integer outside that range; every      *)
(* ordered comparison with NaN is false (FLt, FGt, FLe, FGe).              *)
(***************************************************************************)
EXTENDS Integers, Sequences, FiniteSets, TLC

PInf == 1000000
NInf == 0 - 1000000
NaN == 2000000

\* operator< / operator> / operator<= / operator>= on float
FLt(a, b) == a # NaN /\ b # NaN /\ a < b
FGt(a, b) == a # NaN /\ b # NaN /\ a > b
FLe(a, b) == a # NaN /\ b # NaN /\ a <= b
FGe(a, b) == a # NaN /\ b # NaN /\ a >= b

\* std::isfinite
IsFinite(v) == v # NaN /\ v # PInf /\ v # NInf

\* NumericalProtection::IsValid(float)
NumIsValid(v) == IsFinite(v) /\ v # NaN

\* NumericalProtection::FixInvalid(float, fallback)
FixInvalid(v, fallback_value) == IF NumIsValid(v) THEN v ELSE fallback_value

\* std::clamp(v, lo, hi) is (v < lo) ? lo : (hi < v) ? hi : v for ordered v.
\* A NaN argument is outside its contract (not LessThanComparable): nanClamp
\* is what the build's clamp returns then, "v" (the NaN itself), "lo" or "hi".
Clamp(v, lo, hi, nanClamp) ==
    IF v = NaN
    THEN (CASE nanClamp = "v" -> NaN [] nanClamp = "lo" -> lo [] OTHER -> hi)
    ELSE IF FLt(v, lo) THEN lo ELSE IF FLt(hi, v) THEN hi ELSE v

NanClampOutcomes == {"v", "lo", "hi"}

(***************************************************************************)
(* CphParams                                                               *)
(***************************************************************************)
\* the float fields in the order ValidateAndCorrectParams visits them
FieldOrder == <<"pivot_pq", "gamma_s", "gamma_h", "shoulder_h", "black_lift",
                "highlight_detail", "sat_base", "sat_hi",
                "rlog_a", "rlog_b", "rlog_c", "rlog_t",
                "yknee", "alpha", "toe">>

Fields == {FieldOrder[i] : i \in 1..Len(FieldOrder)}

\* range table: the literals of IsValid, ClampToValidRange, ValidateAndCorrectParams
RangeMin == [f \in Fields |->
    CASE f = "pivot_pq" -> 50 [] f = "gamma_s" -> 1000 [] f = "gamma_h" -> 800
      [] f = "shoulder_h" -> 500 [] f = "black_lift" -> 0
      [] f = "highlight_detail" -> 0 [] f = "sat_base" -> 0 [] f = "sat_hi" -> 0
      [] f = "rlog_a" -> 1000 [] f = "rlog_b" -> 800 [] f = "rlog_c" -> 500
      [] f = "rlog_t" -> 400 [] f = "yknee" -> 950 [] f = "alpha" -> 200
      [] OTHER -> 0]

RangeMax == [f \in Fields |->
    CASE f = "pivot_pq" -> 300 [] f = "gamma_s" -> 1600 [] f = "gamma_h" -> 1400
      [] f = "shoulder_h" -> 3000 [] f = "black_lift" -> 20
      [] f = "highlight_detail" -> 1000 [] f = "sat_base" -> 2000
      [] f = "sat_hi" -> 2000
      [] f = "rlog_a" -> 16000 [] f = "rlog_b" -> 1200 [] f = "rlog_c" -> 3000
      [] f = "rlog_t" -> 700 [] f = "yknee" -> 990 [] f = "alpha" -> 1000
      [] OTHER -> 10]

\* the fallback literals of ClampToValidRange's FixInvalid calls
FixDefault == [f \in Fields |->
    CASE f = "pivot_pq" -> 175 [] f = "gamma_s" -> 1300 [] f = "gamma_h" -> 1100
      [] f = "shoulder_h" -> 1750 [] f = "black_lift" -> 10
      [] f = "highlight_detail" -> 500 [] f = "sat_base" -> 1000
      [] f = "sat_hi" -> 1000
      [] f = "rlog_a" -> 8500 [] f = "rlog_b" -> 1000 [] f = "rlog_c" -> 1750
      [] f = "rlog_t" -> 550 [] f = "yknee" -> 970 [] f = "alpha" -> 600
      [] OTHER -> 5]

\* member initialisers of struct CphParams
DefaultParams ==
    [curve |-> "PPR", pivot_pq |-> 180, gamma_s |-> 1250, gamma_h |-> 1100,
     shoulder_h |-> 1500, black_lift |-> 2, highlight_detail |-> 200,
     sat_base |-> 1000, sat_hi |-> 950, dci_compliance |-> FALSE,
     deterministic |-> FALSE, rlog_a |-> 8000, rlog_b |-> 1000,
     rlog_c |-> 1500, rlog_t |-> 550, yknee |-> 970, alpha |-> 600, toe |-> 2]

\* (min + max) * 0.5f
Midpoint(f) == (RangeMin[f] + RangeMax[f]) \div 2

\* CphParams::IsValid
IsValid(p) ==
    /\ \A f \in Fields : NumIsValid(p[f])
    /\ \A f \in Fields : ~(FLt(p[f], RangeMin[f]) \/ FGt(p[f], RangeMax[f]))

\* ClampToValidRange that leaves the four RLOG fields as they are.
ClampToValidRangeButRlog(p) ==
    [f \in DOMAIN p |->
        IF f \in Fields \ {"rlog_a", "rlog_b", "rlog_c", "rlog_t"}
        THEN Clamp(FixInvalid(p[f], FixDefault[f]), RangeMin[f], RangeMax[f], "v")
        ELSE p[f]]

\* CphParams::ClampToValidRange: FixInvalid on every field, then std::clamp
\* (never reached with a NaN, so the clamp's NaN outcome plays no part)
ClampToValidRange(p) ==
    [f \in DOMAIN p |->
        IF f \in Fields
        THEN Clamp(FixInvalid(p[f], FixDefault[f]), RangeMin[f], RangeMax[f], "v")
        ELSE p[f]]

(***************************************************************************)
(* Parameter bundles used as inputs.                                       *)
(***************************************************************************)
Below == 0 - 100   \* -0.1f, under every range
Above == 20000     \* 20.0f, over every range

BadKinds == <<Below, Above, NaN, PInf, NInf>>

BadValues == {BadKinds[i] : i \in 1..Len(BadKinds)}

\* the default bundle with one field replaced
OneBad(f, v) == [DefaultParams EXCEPT ![f] = v]

\* every float field set to the same value
AllBad(v) == [f \in DOMAIN DefaultParams |-> IF f \in Fields THEN v ELSE DefaultParams[f]]

IndexOf(f) == CHOOSE i \in 1..Len(FieldOrder) : FieldOrder[i] = f

\* a mix: field i is left at its default or takes the ((i + k) mod 6)-th kind
Mixed(k) ==
    [f \in DOMAIN DefaultParams |->
        IF f \in Fields
        THEN LET j == (IndexOf(f) + k) % 6
             IN IF j = 0 THEN DefaultParams[f] ELSE BadKinds[j]
        ELSE DefaultParams[f]]

\* the fields given a lone bad value; AllBad and Mixed reach the other fields
LoneFields == {"pivot_pq", "yknee"}

Bundles ==
    {DefaultParams}
    \cup {OneBad(f, v) : f \in LoneFields, v \in BadValues}
    \cup {AllBad(v) : v \in BadValues}
    \cup {Mixed(k) : k \in 0..5}

(***************************************************************************)
(* Error codes and fallback strategies                                     *)
(***************************************************************************)
ErrorCodes == {"SCHEMA_MISSING", "RANGE_PIVOT", "RANGE_KNEE", "NAN_INF",
               "DET_MISMATCH", "HL_FLICKER", "DCI_BOUND", "GAMUT_OOG"}

AllCodes == ErrorCodes \cup {"SUCCESS"}

\* ErrorReport(): the default-constructed report
NoError == [code |-> "SUCCESS", field_name |-> "", invalid_value |-> 0,
            action_taken |-> ""]

(***************************************************************************)
(* LogThrottler                                                            *)
(***************************************************************************)
MAX_LOGS_PER_SECOND == 10

\* WINDOW_DURATION{1} second, in clock ticks of half a second
WINDOW_DURATION == 2

\* ThrottleInfo's member initialisers; a default time_point is the clock's epoch
DefaultThrottleInfo ==
    [count |-> 0, window_start |-> 0, throttled_count |-> 0,
     first_throttled |-> 0, last_throttled |-> 0]

\* LogThrottler::UpdateWindow
UpdateWindow(info, t) ==
    IF t - info.window_start >= WINDOW_DURATION
    THEN [info EXCEPT !.count = 0, !.window_start = t]
    ELSE info

\* LogThrottler::ShouldLog on the entry of one code: the result and the
\* entry it leaves behind
ShouldLogBuggy(info0, t) ==
    LET info == UpdateWindow(info0, t)
    IN IF info.count > MAX_LOGS_PER_SECOND
       THEN [ok |-> FALSE,
             info |-> [info EXCEPT !.throttled_count = @ + 1,
                                   !.first_throttled =
                                       IF info.throttled_count + 1 = 1 THEN t ELSE @,
                                   !.last_throttled = t]]
       ELSE [ok |-> TRUE, info |-> [info EXCEPT !.count = @ + 1]]

ShouldLog(info0, t) ==
    LET info == UpdateWindow(info0, t)
    IN IF info.count >= MAX_LOGS_PER_SECOND
       THEN [ok |-> FALSE,
             info |-> [info EXCEPT !.throttled_count = @ + 1,
                                   !.first_throttled =
                                       IF info.throttled_count + 1 = 1 THEN t ELSE @,
                                   !.last_throttled = t]]
       ELSE [ok |-> TRUE, info |-> [info EXCEPT !.count = @ + 1]]


(***************************************************************************)
(* ErrorHandler                                                            *)
(***************************************************************************)
\* ErrorHandler::DetermineFallbackStrategy
DetermineFallbackStrategyFlicker(error_code) ==
    CASE error_code \in {"RANGE_PIVOT", "RANGE_KNEE", "HL_FLICKER"} -> "PARAMETER_CORRECTION"
      [] error_code \in {"SCHEMA_MISSING", "DCI_BOUND", "GAMUT_OOG",
                         "DET_MISMATCH"} -> "STANDARD_FALLBACK"
      [] OTHER -> "HARD_FALLBACK"

DetermineFallbackStrategy(error_code) ==
    CASE error_code \in {"RANGE_PIVOT", "RANGE_KNEE"} -> "PARAMETER_CORRECTION"
      [] error_code \in {"SCHEMA_MISSING", "DCI_BOUND", "GAMUT_OOG",
                         "DET_MISMATCH", "HL_FLICKER"} -> "STANDARD_FALLBACK"
      [] OTHER -> "HARD_FALLBACK"

\* the switch over strategy in HandleError
ActionTaken(strategy) ==
    CASE strategy = "PARAMETER_CORRECTION" -> "PARAM_CORRECT"
      [] strategy = "STANDARD_FALLBACK" -> "FALLBACK2094"
      [] OTHER -> "IDENTITY"

(***************************************************************************)
(* The handler's members, and what one public call has done so far, are    *)
(* threaded through the calls as a record st:                              *)
(*   tm, last, strat   throttler_.throttle_map_, last_error_,              *)
(*                     current_strategy_                                   *)
(*   p                 the caller's CphParams (passed by reference)        *)
(*   ret               the value returned by the latest HandleError        *)
(*   events            the reports built by HandleError, in order          *)
(*   cbs               the reports handed to error_callback_, in order     *)
(*   logged            per HandleError, whether LogError wrote its line    *)
(*   corrected         the flag accumulated by ValidateAndCorrectParams    *)
(***************************************************************************)
\* ErrorHandler::HandleError; t is the steady_clock reading, cbOn whether
\* error_callback_ holds a callable
HandleErrorCbIfLogged(st, error_code, field_name, invalid_value, t, cbOn) ==
    LET strategy == DetermineFallbackStrategy(error_code)
        error == [code |-> error_code, field_name |-> field_name,
                  invalid_value |-> invalid_value,
                  action_taken |-> ActionTaken(strategy)]
        r == ShouldLog(st.tm[error_code], t)
    IN [st EXCEPT !.strat = strategy,
                  !.last = error,
                  !.tm = [@ EXCEPT ![error_code] = r.info],
                  !.logged = Append(@, r.ok),
                  !.events = Append(@, error),
                  !.cbs = IF cbOn /\ r.ok THEN Append(@, error) ELSE @,
                  !.ret = strategy]

\* HandleError that keeps HARD_FALLBACK once it has been selected
HandleErrorKeepsHard(st, error_code, field_name, invalid_value, t, cbOn) ==
    LET strategy == DetermineFallbackStrategy(error_code)
        error == [code |-> error_code, field_name |-> field_name,
                  invalid_value |-> invalid_value,
                  action_taken |-> ActionTaken(strategy)]
        r == ShouldLog(st.tm[error_code], t)
    IN [st EXCEPT !.strat = IF @ = "HARD_FALLBACK" THEN @ ELSE strategy,
                  !.last = error,
                  !.tm = [@ EXCEPT ![error_code] = r.info],
                  !.logged = Append(@, r.ok),
                  !.events = Append(@, error),
                  !.cbs = IF cbOn THEN Append(@, error) ELSE @,
                  !.ret = strategy]

HandleError(st, error_code, field_name, invalid_value, t, cbOn) ==
    LET strategy == DetermineFallbackStrategy(error_code)
        error == [code |-> error_code, field_name |-> field_name,
                  invalid_value |-> invalid_value,
                  action_taken |-> ActionTaken(strategy)]
        r == ShouldLog(st.tm[error_code], t)
    IN [st EXCEPT !.strat = strategy,
                  !.last = error,
                  !.tm = [@ EXCEPT ![error_code] = r.info],
                  !.logged = Append(@, r.ok),
                  !.events = Append(@, error),
                  !.cbs = IF cbOn THEN Append(@, error) ELSE @,
                  !.ret = strategy]

\* ErrorHandler::CorrectParameter
CorrectParameterNoMidpoint(st, f, min, max, t, nanClamp) ==
    LET clamped == Clamp(st.p[f], min, max, nanClamp)
        r == ShouldLog(st.tm["RANGE_PIVOT"], t)
    IN [st EXCEPT !.p = [@ EXCEPT ![f] = clamped],
                  !.tm = [@ EXCEPT !["RANGE_PIVOT"] = r.info]]

CorrectParameterAlwaysMidpoint(st, f, min, max, t, nanClamp) ==
    LET r == ShouldLog(st.tm["RANGE_PIVOT"], t)
    IN [st EXCEPT !.p = [@ EXCEPT ![f] = (min + max) \div 2],
                  !.tm = [@ EXCEPT !["RANGE_PIVOT"] = r.info]]

CorrectParameter(st, f, min, max, t, nanClamp) ==
    LET clamped == Clamp(st.p[f], min, max, nanClamp)
        param == IF ~NumIsValid(clamped) THEN (min + max) \div 2 ELSE clamped
        r == ShouldLog(st.tm["RANGE_PIVOT"], t)
    IN [st EXCEPT !.p = [@ EXCEPT ![f] = param],
                  !.tm = [@ EXCEPT !["RANGE_PIVOT"] = r.info]]

\* ErrorHandler::ValidateFloatRange
ValidateFloatRange(st, f, min, max, t, cbOn, nanClamp) ==
    LET value == st.p[f]
    IN IF ~NumIsValid(value)
       THEN [CorrectParameter(HandleError(st, "NAN_INF", f, value, t, cbOn),
                              f, min, max, t, nanClamp)
                EXCEPT !.corrected = TRUE]
       ELSE IF FLt(value, min) \/ FGt(value, max)
       THEN [CorrectParameter(HandleError(st, "RANGE_PIVOT", f, value, t, cbOn),
                              f, min, max, t, nanClamp)
                EXCEPT !.corrected = TRUE]
       ELSE st

RECURSIVE ValidateFrom(_, _, _, _, _)
\* the i-th and later ValidateFloatRange calls of ValidateAndCorrectParams
ValidateFrom(st, i, t, cbOn, nanClamp) ==
    IF i > Len(FieldOrder)
    THEN st
    ELSE LET f == FieldOrder[i]
         IN ValidateFrom(ValidateFloatRange(st, f, RangeMin[f], RangeMax[f],
                                            t, cbOn, nanClamp),
                         i + 1, t, cbOn, nanClamp)

\* ErrorHandler::ValidateAndCorrectParams
ValidateAndCorrectParams(st, t, cbOn, nanClamp) ==
    ValidateFrom([st EXCEPT !.corrected = FALSE], 1, t, cbOn, nanClamp)


(***************************************************************************)
(* Bounds                                                                  *)
(***************************************************************************)
MaxTime == 3          \* the clock stops after this many half-second ticks
MaxThrottled == 2     \* ShouldLog is not driven past this throttled_count
MaxOps == 2           \* public calls made on one ErrorHandler

\* the codes a LogThrottler is driven with directly
ThrottleCodes == {"RANGE_PIVOT"}

(***************************************************************************)
(* State                                                                   *)
(***************************************************************************)
VARIABLES
    now,                \* std::chrono::steady_clock::now(), in ticks
    throttle_map,       \* LogThrottler::throttle_map_
    grants,             \* per code and tick, the ShouldLog calls that returned true
    last_error_,        \* ErrorHandler::last_error_
    current_strategy_,  \* ErrorHandler::current_strategy_
    error_callback_,    \* whether ErrorHandler::error_callback_ holds a callable
    clamp_nan,          \* what this build's std::clamp returns for a NaN
    eh_call,            \* the latest public call on the handler and its arguments
    eh_ret,             \* what that call returned
    eh_params,          \* the caller's CphParams after that call
    eh_events,          \* the reports HandleError built during that call
    eh_callbacks,       \* the reports error_callback_ received during that call
    eh_logged,          \* per report, whether its log line was written
    nops,               \* number of public calls so far
    initialized,        \* CphProcessor::Impl::initialized
    current_params,     \* CphProcessor::Impl::current_params
    current_stats,      \* CphProcessor::Impl::current_stats
    error_history,      \* CphProcessor::Impl::error_history
    last_error,         \* CphProcessor::Impl::last_error: <<>> or <<the report it renders>>
    tone_mapper,        \* CphProcessor::Impl::tone_mapper
    highlight_processor,\* CphProcessor::Impl::highlight_processor
    output,             \* the caller's output Image
    pr_call,            \* the latest public call on the processor and its arguments
    pr_ret,             \* what that call returned
    pr_logged,          \* the reports that call passed to LogError, in order
    pr_trace,           \* that call's LogError, UpdateStatistics and
                        \* ValidateCurveProperties calls, in the order they ran
    curve_validations,  \* ValidateCurveProperties since the last successful
                        \* Initialize: "none", "once" or "again"
    stored_params,      \* what the last successful Initialize stored in current_params
    init_seen,          \* the Initialize calls so far: "none", "failed" when
                        \* every one of them returned false, "ok" when one
                        \* returned true
    frames_ok           \* ProcessFrame calls that returned true since the last
                        \* successful Initialize or ResetStatistics

thVars == <<now, throttle_map, grants>>
prVars == <<initialized, current_params, current_stats, error_history, last_error,
            tone_mapper, highlight_processor, output, pr_call, pr_ret, pr_logged,
            pr_trace, curve_validations, stored_params, init_seen, frames_ok>>
ehVars == <<last_error_, current_strategy_, error_callback_, clamp_nan, eh_call,
            eh_ret, eh_params, eh_events, eh_callbacks, eh_logged, nops>>

\* threads sharing the GlobalErrorHandler
VARIABLES
    pc,                 \* per thread, where it is in the call it is making
    mutex_,             \* ErrorHandler::mutex_: the thread holding it, or 0
    throttler_mutex_,   \* LogThrottler::mutex_: the thread holding it, or 0
    instance_mutex_,    \* GlobalErrorHandler::instance_mutex_: its holder, or 0
    instance_,          \* GlobalErrorHandler::instance_: 0 for nullptr, else the
                        \* ErrorHandler it owns
    constructed,        \* ErrorHandler objects constructed so far
    th_ret,             \* per thread, the ErrorHandler its last Instance() returned
    th_arg,             \* per thread, the error code of its HandleError call
    th_i,               \* per thread, the loop index of GetAggregateReports
    th_last_error,      \* the code in the shared handler's last_error_
    th_raced            \* threads whose access to last_error_ overlapped a
                        \* conflicting access of another thread

thrVars == <<pc, mutex_, throttler_mutex_, instance_mutex_, instance_, constructed,
             th_ret, th_arg, th_i, th_last_error, th_raced>>

\* one call of the gamut processor
VARIABLES
    gm_call,            \* the call: its name, the pixel, the target colour space
                        \* and dci_compliance
    gm_done,            \* whether the call has been made
    gm_rgb,             \* the pixel the call left
    gm_ret,             \* what ApplyGamutProcessing returned
    gm_converged,       \* whether PerceptualGamutClamp's loop found an in-gamut
                        \* iterate: "yes", "no", or "none" if it did not run
    gm_logged           \* the error codes recorded during the call

gmVars == <<gm_call, gm_done, gm_rgb, gm_ret, gm_converged, gm_logged>>

\* a ToneMapper and the calls made on it
VARIABLES
    tm_initialized,     \* ToneMapper::initialized_
    tm_params,          \* ToneMapper::params_
    tm_last_error,      \* ToneMapper::last_error_
    tm_log,             \* how the build's std::log rounds, in units in the last place
    tm_in,              \* the arguments of the ApplyToneMapping calls since
                        \* construction or the last successful Initialize
    tm_out,             \* what those calls returned
    toe_call            \* the last toe clamp made on a value: <<>> before the
                        \* first one, else one record of the value, the toe and
                        \* what the mapper's clamp and the helper returned

tmVars == <<tm_initialized, tm_params, tm_last_error, tm_log, tm_in, tm_out,
            toe_call>>

\* a HighlightDetailProcessor and the calls made on it
VARIABLES
    hd_proc,                 \* HighlightDetailProcessor::initialized_ and params_
    has_previous_frame_,     \* HighlightDetailProcessor::has_previous_frame_
    previous_frame_,         \* HighlightDetailProcessor::previous_frame_
    motion_energy_history_,  \* HighlightDetailProcessor::motion_energy_history_
    hd_energies,             \* every value ComputeMotionEnergy returned since the
                             \* last Initialize or Reset call, oldest first
    hd_call                  \* the last call made on the processor and its outcome

hdVars == <<hd_proc, has_previous_frame_, previous_frame_, motion_energy_history_,
            hd_energies, hd_call>>

\* the throttler, the handler and the processor, and the state outside them
seqVars == <<thVars, ehVars, prVars>>
restVars == <<thrVars, gmVars, tmVars, hdVars>>

NoGrants == [c \in AllCodes |-> [t \in 0..MaxTime |-> 0]]

InitThrottler ==
    /\ now = 0
    /\ throttle_map = [c \in AllCodes |-> DefaultThrottleInfo]
    /\ grants = NoGrants

\* ErrorHandler::ErrorHandler()
InitHandler ==
    /\ last_error_ = NoError
    /\ current_strategy_ = "PARAMETER_CORRECTION"
    /\ error_callback_ = FALSE
    /\ eh_call = [op |-> "none", code |-> "SUCCESS", params |-> DefaultParams,
                  cb |-> FALSE]
    /\ eh_ret = "none"
    /\ eh_params = DefaultParams
    /\ eh_events = <<>>
    /\ eh_callbacks = <<>>
    /\ eh_logged = <<>>
    /\ nops = 0

\* steady_clock advances
Tick ==
    /\ now < MaxTime
    /\ now' = now + 1
    /\ UNCHANGED <<throttle_map, grants>>

(***************************************************************************)
(* A LogThrottler driven directly                                          *)
(***************************************************************************)
\* LogThrottler::ShouldLog(error_code)
ThrottlerShouldLog(error_code) ==
    LET r == ShouldLog(throttle_map[error_code], now)
    IN /\ r.info.throttled_count <= MaxThrottled
       /\ throttle_map' = [throttle_map EXCEPT ![error_code] = r.info]
       /\ grants' = IF r.ok
                    THEN [grants EXCEPT ![error_code][now] = @ + 1]
                    ELSE grants
       /\ UNCHANGED now

\* LogThrottler::Reset
ThrottlerReset ==
    /\ throttle_map' = [c \in AllCodes |-> DefaultThrottleInfo]
    /\ grants' = NoGrants
    /\ UNCHANGED now


(***************************************************************************)
(* CphProcessor                                                            *)
(*                                                                         *)
(* An Image is its width, height, channels and data.  A frame that has     *)
(* gone through the pipeline is its source Image and the sequence of       *)
(* stages applied to it; the pixel arithmetic of the stages is not         *)
(* interpreted here.                                                       *)
(***************************************************************************)
MaxFrames == 2        \* ProcessFrame is not driven past this frame_count
MaxErrors == 1        \* LogError is not driven past this error_history length

\* Image(w, h, c) with the given data
Image(w, h, c, data) == [width |-> w, height |-> h, channels |-> c, data |-> data]

\* Image(): no frame
NoImage == Image(0, 0, 3, <<>>)

InputFrames ==
    {Image(1, 1, 3, <<500, 700, 300>>),      \* a finite pixel
     Image(1, 1, 3, <<NaN, 700, 300>>),      \* R = NaN
     NoImage}                                \* width = height = 0

\* Image::IsValid
ImageIsValid(img) ==
    /\ ~(img.width <= 0 \/ img.height <= 0 \/ img.channels <= 0)
    /\ Len(img.data) = img.width * img.height * img.channels
    /\ \A i \in 1..Len(img.data) : IsFinite(img.data[i])

\* Statistics::Reset (the curve flags and the frame counter)
StatisticsReset == [frame_count |-> 0, monotonic |-> TRUE, c1_continuous |-> TRUE]

\* NumericalUtils::IsInRange
IsInRange(value, min_val, max_val) == FGe(value, min_val) /\ FLe(value, max_val)

\* ParamValidator::ValidateRange: the errors it appends for one field
ValidateRange(p, f) ==
    IF ~IsInRange(p[f], RangeMin[f], RangeMax[f])
    THEN <<[code |-> "RANGE_PIVOT", field_name |-> f]>>
    ELSE <<>>

\* the fields checked by ValidateCommonParams, ValidatePPRParams, ValidateRLOGParams
CommonFields == <<"pivot_pq", "black_lift", "highlight_detail", "sat_base",
                  "sat_hi", "yknee", "alpha", "toe">>
PPRFields == <<"gamma_s", "gamma_h", "shoulder_h">>
RLOGFields == <<"rlog_a", "rlog_b", "rlog_c", "rlog_t">>

RECURSIVE ValidateFields(_, _, _)
\* ValidateRange on the i-th and later fields of fs, errors in order
ValidateFields(p, fs, i) ==
    IF i > Len(fs) THEN <<>>
    ELSE ValidateRange(p, fs[i]) \o ValidateFields(p, fs, i + 1)

\* ParamValidator::ValidateCphParams: the errors vector; valid iff it is empty
ValidateCphParams(p) ==
    ValidateFields(p, CommonFields, 1)
        \o (IF p.curve = "PPR" THEN ValidateFields(p, PPRFields, 1)
            ELSE IF p.curve = "RLOG" THEN ValidateFields(p, RLOGFields, 1)
            ELSE <<>>)

\* ToneMapper::Initialize
ToneMapperInitialize(tm, p) ==
    IF ~IsValid(p) THEN [ok |-> FALSE, tm |-> tm]
    ELSE [ok |-> TRUE, tm |-> [initialized_ |-> TRUE, params_ |-> p]]

\* HighlightDetailProcessor::Initialize
HighlightInitialize(hp, p) ==
    LET q == ClampToValidRange(p)
    IN IF ~IsValid(q) THEN [ok |-> FALSE, hp |-> [hp EXCEPT !.params_ = q]]
       ELSE [ok |-> TRUE, hp |-> [initialized_ |-> TRUE, params_ |-> q]]

\* CphProcessor::Impl::LogError applied to a sequence of reports
LogErrors(hist, reports) == hist \o reports

LastErrorAfter(last, reports) ==
    IF reports = <<>> THEN last ELSE <<reports[Len(reports)]>>

Report(code) == [code |-> code, field_name |-> ""]

\* one "LogError" per report
LogTrace(reports) == [i \in 1..Len(reports) |-> "LogError"]

\* bundles handed to Initialize
InitBundles ==
    {DefaultParams,
     [DefaultParams EXCEPT !.curve = "RLOG"],
     [DefaultParams EXCEPT !.highlight_detail = 0],
     OneBad("pivot_pq", Below),                       \* fails validation
     OneBad("rlog_a", PInf),                          \* PPR: rlog_a is not validated
     [OneBad("pivot_pq", NaN) EXCEPT !.curve = "RLOG",
                                     !.rlog_t = NInf]} \* two fields fail

\* CphProcessor::CphProcessor()
InitProcessor ==
    /\ initialized = FALSE
    /\ current_params = DefaultParams
    /\ current_stats = StatisticsReset
    /\ error_history = <<>>
    /\ last_error = <<>>
    /\ tone_mapper = [initialized_ |-> FALSE, params_ |-> DefaultParams]
    /\ highlight_processor = [initialized_ |-> FALSE, params_ |-> DefaultParams]
    /\ output = [src |-> NoImage, stages |-> <<>>]
    /\ pr_call = [op |-> "none", params |-> DefaultParams, input |-> NoImage]
    /\ pr_ret = FALSE
    /\ pr_logged = <<>>
    /\ pr_trace = <<>>
    /\ curve_validations = "none"
    /\ stored_params = DefaultParams
    /\ frames_ok = 0
    /\ init_seen = "none"

PrCall(op, p, img) == [op |-> op, params |-> p, input |-> img]

\* Initialize with the assignment of current_params moved above the validation
InitializeBeforeValidate(params) ==
    LET validation_errors == ValidateCphParams(params)
        cp == ClampToValidRange(params)
        t == ToneMapperInitialize(tone_mapper, cp)
        h == HighlightInitialize(highlight_processor, cp)
    IN /\ Len(error_history) + Len(validation_errors) <= MaxErrors
       /\ pr_call' = PrCall("Initialize", params, NoImage)
       /\ current_params' = cp
       /\ IF validation_errors # <<>>
          THEN /\ error_history' = LogErrors(error_history, validation_errors)
               /\ last_error' = LastErrorAfter(last_error, validation_errors)
               /\ pr_logged' = validation_errors
               /\ pr_trace' = LogTrace(validation_errors)
               /\ pr_ret' = FALSE
               /\ UNCHANGED <<curve_validations, stored_params>>
               /\ init_seen' = IF init_seen = "ok" THEN "ok" ELSE "failed"
               /\ UNCHANGED <<initialized, current_stats, tone_mapper,
                              highlight_processor, frames_ok>>
          ELSE /\ tone_mapper' = t.tm
               /\ highlight_processor' = h.hp
               /\ current_stats' = StatisticsReset
               /\ initialized' = TRUE
               /\ frames_ok' = 0
               /\ curve_validations' = "none"
               /\ stored_params' = cp
               /\ init_seen' = "ok"
               /\ pr_logged' = <<>>
               /\ pr_trace' = <<>>
               /\ pr_ret' = TRUE
               /\ UNCHANGED <<error_history, last_error>>
       /\ UNCHANGED output

\* CphProcessor::Initialize(params)
Initialize(params) ==
    LET validation_errors == ValidateCphParams(params)
        cp == ClampToValidRange(params)
        t == ToneMapperInitialize(tone_mapper, cp)
        h == HighlightInitialize(highlight_processor, cp)
        schema == <<Report("SCHEMA_MISSING")>>
    IN /\ Len(error_history) + Len(validation_errors) <= MaxErrors
       /\ pr_call' = PrCall("Initialize", params, NoImage)
       /\ IF validation_errors # <<>>
          THEN /\ error_history' = LogErrors(error_history, validation_errors)
               /\ last_error' = LastErrorAfter(last_error, validation_errors)
               /\ pr_logged' = validation_errors
               /\ pr_trace' = LogTrace(validation_errors)
               /\ pr_ret' = FALSE
               /\ UNCHANGED <<curve_validations, stored_params>>
               /\ init_seen' = IF init_seen = "ok" THEN "ok" ELSE "failed"
               /\ UNCHANGED <<initialized, current_params, current_stats,
                              tone_mapper, highlight_processor, frames_ok>>
          ELSE IF ~t.ok
          THEN /\ Len(error_history) < MaxErrors
               /\ current_params' = cp
               /\ error_history' = LogErrors(error_history, schema)
               /\ last_error' = LastErrorAfter(last_error, schema)
               /\ pr_logged' = schema
               /\ pr_trace' = LogTrace(schema)
               /\ pr_ret' = FALSE
               /\ UNCHANGED <<curve_validations, stored_params>>
               /\ init_seen' = IF init_seen = "ok" THEN "ok" ELSE "failed"
               /\ UNCHANGED <<initialized, current_stats, tone_mapper,
                              highlight_processor, frames_ok>>
          ELSE IF ~h.ok
          THEN /\ Len(error_history) < MaxErrors
               /\ current_params' = cp
               /\ tone_mapper' = t.tm
               /\ highlight_processor' = h.hp
               /\ error_history' = LogErrors(error_history, schema)
               /\ last_error' = LastErrorAfter(last_error, schema)
               /\ pr_logged' = schema
               /\ pr_trace' = LogTrace(schema)
               /\ pr_ret' = FALSE
               /\ UNCHANGED <<curve_validations, stored_params>>
               /\ init_seen' = IF init_seen = "ok" THEN "ok" ELSE "failed"
               /\ UNCHANGED <<initialized, current_stats, frames_ok>>
          ELSE /\ current_params' = cp
               /\ tone_mapper' = t.tm
               /\ highlight_processor' = h.hp
               /\ current_stats' = StatisticsReset
               /\ initialized' = TRUE
               /\ frames_ok' = 0
               /\ curve_validations' = "none"
               /\ stored_params' = cp
               /\ init_seen' = "ok"
               /\ pr_logged' = <<>>
               /\ pr_trace' = <<>>
               /\ pr_ret' = TRUE
               /\ UNCHANGED <<error_history, last_error>>
       /\ UNCHANGED output

\* The source has no throw statement: what the catch block of
\* ProcessFrameInternal can catch is a failed allocation.  The allocations
\* sized by the caller's frame may fail (the working Image, the USM output, the
\* reserve() of UpdateStatistics); the fixed-size ones (an ErrorReport, the
\* sample points of the curve validators) do not.
ThrowSites == {"none", "ToWorkingDomain", "ApplyUSM", "UpdateStatistics"}

\* HighlightDetailProcessor::ProcessFrame: "failed", "copied" or "enhanced"
HighlightProcessFrame(hp, throwAt) ==
    IF ~hp.initialized_ THEN "failed"
    ELSE IF FLe(hp.params_.highlight_detail, 0) THEN "copied"
    ELSE IF throwAt = "ApplyUSM" THEN "failed"
    ELSE "enhanced"

\* UpdateStatistics that leaves the frame counter alone
UpdateStatisticsNoCount(stats) == stats

\* CphProcessor::Impl::UpdateStatistics (the frame counter)
UpdateStatistics(stats) == [stats EXCEPT !.frame_count = @ + 1]

\* CphProcessor::ValidateCurveProperties given what the two validators return:
\* the statistics it writes and the errors it logs
ValidateCurveProperties(stats, is_monotonic, is_c1_continuous) ==
    [stats |-> [stats EXCEPT !.monotonic = is_monotonic,
                             !.c1_continuous = is_c1_continuous],
     errors |-> (IF ~is_monotonic THEN <<Report("RANGE_KNEE")>> ELSE <<>>)
                 \o (IF ~is_c1_continuous THEN <<Report("RANGE_KNEE")>> ELSE <<>>)]

\* CphProcessor::ProcessFrameInternal
ProcessFrameInternal(input, throwAt, is_monotonic, is_c1_continuous) ==
    LET hl == IF FGt(current_params.highlight_detail, 0)
              THEN HighlightProcessFrame(highlight_processor, throwAt)
              ELSE "skipped"
        hlErrors == IF hl = "failed" THEN <<Report("HL_FLICKER")>> ELSE <<>>
        stages == <<"ToWorkingDomain", "ToneMapping">>
                    \o (IF hl = "enhanced" THEN <<"HighlightDetail">> ELSE <<>>)
                    \o <<"Saturation", "FromWorkingDomain">>
        counted == UpdateStatistics(current_stats)
        v == IF counted.frame_count = 1
             THEN ValidateCurveProperties(counted, is_monotonic, is_c1_continuous)
             ELSE [stats |-> counted, errors |-> <<>>]
        first == counted.frame_count = 1
        caught == <<Report("NAN_INF")>>
    IN IF throwAt = "ToWorkingDomain"
       THEN [ret |-> FALSE, out |-> output, stats |-> current_stats,
             errors |-> caught, trace |-> LogTrace(caught), validated |-> FALSE]
       ELSE IF throwAt = "UpdateStatistics"
       THEN [ret |-> FALSE, out |-> [src |-> input, stages |-> stages],
             stats |-> current_stats, errors |-> hlErrors \o caught,
             trace |-> LogTrace(hlErrors) \o LogTrace(caught),
             validated |-> FALSE]
       ELSE [ret |-> TRUE, out |-> [src |-> input, stages |-> stages],
             stats |-> v.stats, errors |-> hlErrors \o v.errors,
             trace |-> LogTrace(hlErrors) \o <<"UpdateStatistics">>
                         \o (IF first THEN <<"ValidateCurveProperties">> ELSE <<>>)
                         \o LogTrace(v.errors),
             validated |-> first]

\* CphProcessor::ProcessFrame(input, output)
\* ProcessFrame without the test of initialized at its head.
ProcessFrameUnchecked(input, throwAt, is_monotonic, is_c1_continuous) ==
    LET r == IF ~ImageIsValid(input)
             THEN [ret |-> FALSE, out |-> output, stats |-> current_stats,
                   errors |-> <<Report("NAN_INF")>>,
                   trace |-> <<"LogError">>, validated |-> FALSE]
             ELSE ProcessFrameInternal(input, throwAt, is_monotonic,
                                       is_c1_continuous)
    IN /\ r.stats.frame_count <= MaxFrames
       /\ Len(error_history) + Len(r.errors) <= MaxErrors
       /\ pr_call' = PrCall("ProcessFrame", DefaultParams, input)
       /\ pr_ret' = r.ret
       /\ pr_logged' = r.errors
       /\ pr_trace' = r.trace
       /\ curve_validations' = IF ~r.validated THEN curve_validations
                                ELSE IF curve_validations = "none" THEN "once"
                                ELSE "again"
       /\ UNCHANGED <<stored_params, init_seen>>
       /\ output' = r.out
       /\ current_stats' = r.stats
       /\ error_history' = LogErrors(error_history, r.errors)
       /\ last_error' = LastErrorAfter(last_error, r.errors)
       /\ frames_ok' = IF r.ret THEN frames_ok + 1 ELSE frames_ok
       /\ UNCHANGED <<initialized, current_params, tone_mapper,
                      highlight_processor>>

ProcessFrame(input, throwAt, is_monotonic, is_c1_continuous) ==
    LET r == IF ~initialized
             THEN [ret |-> FALSE, out |-> output, stats |-> current_stats,
                   errors |-> <<Report("SCHEMA_MISSING")>>,
                   trace |-> <<"LogError">>, validated |-> FALSE]
             ELSE IF ~ImageIsValid(input)
             THEN [ret |-> FALSE, out |-> output, stats |-> current_stats,
                   errors |-> <<Report("NAN_INF")>>,
                   trace |-> <<"LogError">>, validated |-> FALSE]
             ELSE ProcessFrameInternal(input, throwAt, is_monotonic,
                                       is_c1_continuous)
    IN /\ r.stats.frame_count <= MaxFrames
       /\ Len(error_history) + Len(r.errors) <= MaxErrors
       /\ pr_call' = PrCall("ProcessFrame", DefaultParams, input)
       /\ pr_ret' = r.ret
       /\ pr_logged' = r.errors
       /\ pr_trace' = r.trace
       /\ curve_validations' = IF ~r.validated THEN curve_validations
                                ELSE IF curve_validations = "none" THEN "once"
                                ELSE "again"
       /\ UNCHANGED <<stored_params, init_seen>>
       /\ output' = r.out
       /\ current_stats' = r.stats
       /\ error_history' = LogErrors(error_history, r.errors)
       /\ last_error' = LastErrorAfter(last_error, r.errors)
       /\ frames_ok' = IF r.ret THEN frames_ok + 1 ELSE frames_ok
       /\ UNCHANGED <<initialized, current_params, tone_mapper,
                      highlight_processor>>

\* CphProcessor::ResetStatistics
ResetStatistics ==
    /\ current_stats' = StatisticsReset
    /\ frames_ok' = 0
    /\ pr_call' = PrCall("ResetStatistics", DefaultParams, NoImage)
    /\ pr_ret' = TRUE
    /\ pr_logged' = <<>>
    /\ pr_trace' = <<>>
    /\ UNCHANGED <<curve_validations, stored_params, init_seen>>
    /\ UNCHANGED <<initialized, current_params, error_history, last_error,
                   tone_mapper, highlight_processor, output>>

\* CphProcessor::ClearErrors
ClearErrors ==
    /\ error_history' = <<>>
    /\ last_error' = <<>>
    /\ pr_call' = PrCall("ClearErrors", DefaultParams, NoImage)
    /\ pr_ret' = TRUE
    /\ pr_logged' = <<>>
    /\ pr_trace' = <<>>
    /\ UNCHANGED <<curve_validations, stored_params, init_seen>>
    /\ UNCHANGED <<initialized, current_params, current_stats, tone_mapper,
                   highlight_processor, output, frames_ok>>

\* SetDeterministicMode that rebuilds the bundle from the defaults
SetDeterministicModeFromDefaults(enabled) ==
    /\ current_params' = [DefaultParams EXCEPT !.deterministic = enabled]
    /\ pr_call' = PrCall("SetDeterministicMode", DefaultParams, NoImage)
    /\ pr_ret' = TRUE
    /\ pr_logged' = <<>>
    /\ pr_trace' = <<>>
    /\ UNCHANGED <<curve_validations, stored_params, init_seen>>
    /\ UNCHANGED <<initialized, current_stats, error_history, last_error,
                   tone_mapper, highlight_processor, output, frames_ok>>

\* CphProcessor::SetDeterministicMode(enabled)
SetDeterministicMode(enabled) ==
    /\ current_params' = [current_params EXCEPT !.deterministic = enabled]
    /\ pr_call' = PrCall("SetDeterministicMode", DefaultParams, NoImage)
    /\ pr_ret' = TRUE
    /\ pr_logged' = <<>>
    /\ pr_trace' = <<>>
    /\ UNCHANGED <<curve_validations, stored_params, init_seen>>
    /\ UNCHANGED <<initialized, current_stats, error_history, last_error,
                   tone_mapper, highlight_processor, output, frames_ok>>

\* CphProcessor::SetDCIComplianceMode(enabled)
SetDCIComplianceMode(enabled) ==
    /\ current_params' = [current_params EXCEPT !.dci_compliance = enabled]
    /\ pr_call' = PrCall("SetDCIComplianceMode", DefaultParams, NoImage)
    /\ pr_ret' = TRUE
    /\ pr_logged' = <<>>
    /\ pr_trace' = <<>>
    /\ UNCHANGED <<curve_validations, stored_params, init_seen>>
    /\ UNCHANGED <<initialized, current_stats, error_history, last_error,
                   tone_mapper, highlight_processor, output, frames_ok>>

(***************************************************************************)
(* An ErrorHandler and its callers                                         *)
(***************************************************************************)
\* the handler's members before a call on it, with the caller's bundle p
Entry(p) ==
    [tm |-> throttle_map, last |-> last_error_, strat |-> current_strategy_,
     p |-> p, ret |-> "none", events |-> <<>>, cbs |-> <<>>, logged |-> <<>>,
     corrected |-> FALSE]

\* the handler's members after a call that left st and returned ret
Leave(st, call, ret) ==
    /\ throttle_map' = st.tm
    /\ last_error_' = st.last
    /\ current_strategy_' = st.strat
    /\ eh_params' = st.p
    /\ eh_events' = st.events
    /\ eh_callbacks' = st.cbs
    /\ eh_logged' = st.logged
    /\ eh_call' = call
    /\ eh_ret' = ret
    /\ nops' = nops + 1
    /\ UNCHANGED <<now, grants, error_callback_, clamp_nan>>
    /\ UNCHANGED <<prVars, restVars>>

Call(op, code, p) == [op |-> op, code |-> code, params |-> p, cb |-> error_callback_]

\* handler.HandleError(error_code, message)
EHHandleError(error_code) ==
    /\ nops < MaxOps
    /\ LET st == HandleError(Entry(DefaultParams), error_code, "", 0, now,
                             error_callback_)
       IN Leave(st, Call("HandleError", error_code, DefaultParams), st.ret)

\* handler.ValidateAndCorrectParams(params)
EHValidateAndCorrectParams(p) ==
    /\ nops < MaxOps
    /\ LET st == ValidateAndCorrectParams(Entry(p), now, error_callback_, clamp_nan)
       IN Leave(st, Call("ValidateAndCorrectParams", "SUCCESS", p), st.corrected)

\* ErrorHandler::Reset
EHReset ==
    /\ nops < MaxOps
    /\ Leave([Entry(DefaultParams) EXCEPT
                 !.last = NoError,
                 !.strat = "PARAMETER_CORRECTION",
                 !.tm = [c \in AllCodes |-> DefaultThrottleInfo]],
             Call("Reset", "SUCCESS", DefaultParams), "none")

\* ErrorHandler::ClearError
EHClearError ==
    /\ nops < MaxOps
    /\ Leave([Entry(DefaultParams) EXCEPT !.last = NoError],
             Call("ClearError", "SUCCESS", DefaultParams), "none")

\* ErrorHandler::SetErrorCallback(callback); on = the callback is callable
EHSetErrorCallback(on) ==
    /\ nops < MaxOps
    /\ error_callback_' = on
    /\ eh_call' = [op |-> "SetErrorCallback", code |-> "SUCCESS",
                   params |-> DefaultParams, cb |-> on]
    /\ eh_ret' = "none"
    /\ eh_params' = DefaultParams
    /\ eh_events' = <<>>
    /\ eh_callbacks' = <<>>
    /\ eh_logged' = <<>>
    /\ nops' = nops + 1
    /\ UNCHANGED <<now, throttle_map, grants, last_error_, current_strategy_,
                   clamp_nan>>
    /\ UNCHANGED <<prVars, restVars>>

\* time passes between calls on the handler, up to one window length
EHTick == now < WINDOW_DURATION /\ Tick /\ UNCHANGED ehVars /\ UNCHANGED <<prVars, restVars>>

ThTick == Tick /\ UNCHANGED ehVars /\ UNCHANGED <<prVars, restVars>>

ThShouldLog ==
    \E c \in ThrottleCodes :
        ThrottlerShouldLog(c) /\ UNCHANGED ehVars /\ UNCHANGED <<prVars, restVars>>

ThReset == ThrottlerReset /\ UNCHANGED ehVars /\ UNCHANGED <<prVars, restVars>>

(***************************************************************************)
(* Threads sharing the GlobalErrorHandler                                  *)
(***************************************************************************)
NumThreads == 2
Threads == 1..NumThreads
\* what last_error_.code can hold: a code that was stored, or "torn", the
\* outcome of a data race
StoredCodes == {"SUCCESS", "NAN_INF", "RANGE_PIVOT"}

InitThreads ==
    /\ pc = [t \in Threads |-> "idle"]
    /\ mutex_ = 0
    /\ throttler_mutex_ = 0
    /\ instance_mutex_ = 0
    /\ instance_ = 0
    /\ constructed = 0
    /\ th_ret = [t \in Threads |-> 0]
    /\ th_arg = [t \in Threads |-> "SUCCESS"]
    /\ th_i = [t \in Threads |-> 0]
    /\ th_last_error = "SUCCESS"
    /\ th_raced = {}

\* where a thread is writing ErrorHandler::last_error_
WritesLastError == {"he_write", "ce_write"}
\* where a thread is reading ErrorHandler::last_error_
ReadsLastError == {"gl_read"}
\* where a thread is reading or writing LogThrottler::throttle_map_
TouchesThrottleMap == {"he_shouldlog", "gar_read"}

\* t begins an access to last_error_; it races with every other thread that
\* is writing it, and with every other thread reading it if t writes
BeginAccess(t, writes) ==
    LET others == {u \in Threads \ {t} :
                      \/ pc[u] \in WritesLastError
                      \/ writes /\ pc[u] \in ReadsLastError}
    IN th_raced' = IF others = {} THEN th_raced ELSE th_raced \cup others \cup {t}

\* GlobalErrorHandler::Instance(): std::lock_guard lock(instance_mutex_),
\* taken without waiting for the mutex to be free
InstanceLockNoWait(t) ==
    /\ pc[t] = "idle"
    /\ instance_mutex_' = t
    /\ pc' = [pc EXCEPT ![t] = "in_check"]
    /\ UNCHANGED <<mutex_, throttler_mutex_, instance_, constructed, th_ret,
                   th_arg, th_i, th_last_error, th_raced>>
    /\ UNCHANGED <<seqVars, gmVars, tmVars, hdVars>>

\* GlobalErrorHandler::Instance(): std::lock_guard lock(instance_mutex_)
InstanceLock(t) ==
    /\ pc[t] = "idle"
    /\ instance_mutex_ = 0
    /\ instance_mutex_' = t
    /\ pc' = [pc EXCEPT ![t] = "in_check"]
    /\ UNCHANGED <<mutex_, throttler_mutex_, instance_, constructed, th_ret,
                   th_arg, th_i, th_last_error, th_raced>>
    /\ UNCHANGED <<seqVars, gmVars, tmVars, hdVars>>

\* GlobalErrorHandler::Instance(): if (!instance_)
InstanceCheck(t) ==
    /\ pc[t] = "in_check"
    /\ pc' = [pc EXCEPT ![t] = IF instance_ = 0 THEN "in_make" ELSE "in_ret"]
    /\ UNCHANGED <<mutex_, throttler_mutex_, instance_mutex_, instance_,
                   constructed, th_ret, th_arg, th_i, th_last_error, th_raced>>
    /\ UNCHANGED <<seqVars, gmVars, tmVars, hdVars>>

\* GlobalErrorHandler::Instance(): instance_ = std::make_unique<ErrorHandler>()
InstanceMake(t) ==
    /\ pc[t] = "in_make"
    /\ constructed' = constructed + 1
    /\ instance_' = constructed + 1
    /\ pc' = [pc EXCEPT ![t] = "in_ret"]
    /\ UNCHANGED <<mutex_, throttler_mutex_, instance_mutex_, th_ret, th_arg,
                   th_i, th_last_error, th_raced>>
    /\ UNCHANGED <<seqVars, gmVars, tmVars, hdVars>>

\* GlobalErrorHandler::Instance(): return *instance_; the lock_guard unlocks
InstanceReturn(t) ==
    /\ pc[t] = "in_ret"
    /\ th_ret' = [th_ret EXCEPT ![t] = instance_]
    /\ instance_mutex_' = IF instance_mutex_ = t THEN 0 ELSE instance_mutex_
    /\ pc' = [pc EXCEPT ![t] = "idle"]
    /\ UNCHANGED <<mutex_, throttler_mutex_, instance_, constructed, th_arg,
                   th_i, th_last_error, th_raced>>
    /\ UNCHANGED <<seqVars, gmVars, tmVars, hdVars>>

\* a thread calls a member of the handler only through a reference that
\* Instance() returned to it
HasHandler(t) == pc[t] = "idle" /\ th_ret[t] # 0

\* ErrorHandler::HandleError: std::lock_guard lock(mutex_)
HandleErrorLock(t, code) ==
    /\ HasHandler(t)
    /\ mutex_ = 0
    /\ mutex_' = t
    /\ th_arg' = [th_arg EXCEPT ![t] = code]
    /\ pc' = [pc EXCEPT ![t] = "he_locked"]
    /\ UNCHANGED <<throttler_mutex_, instance_mutex_, instance_, constructed,
                   th_ret, th_i, th_last_error, th_raced>>
    /\ UNCHANGED <<seqVars, gmVars, tmVars, hdVars>>

\* ErrorHandler::HandleError: last_error_ = error, the store begins
HandleErrorWrite(t) ==
    /\ pc[t] = "he_locked"
    /\ BeginAccess(t, TRUE)
    /\ pc' = [pc EXCEPT ![t] = "he_write"]
    /\ UNCHANGED <<mutex_, throttler_mutex_, instance_mutex_, instance_,
                   constructed, th_ret, th_arg, th_i, th_last_error>>
    /\ UNCHANGED <<seqVars, gmVars, tmVars, hdVars>>

\* the outcomes of a store of code into last_error_: the code, or anything
\* if the store raced
StoreOutcomes(t, code) ==
    IF t \in th_raced THEN StoredCodes \cup {"torn"} ELSE {code}

\* ErrorHandler::HandleError: last_error_ = error, the store ends
HandleErrorWritten(t) ==
    /\ pc[t] = "he_write"
    /\ th_last_error' \in StoreOutcomes(t, th_arg[t])
    /\ th_raced' = th_raced \ {t}
    /\ pc' = [pc EXCEPT ![t] = "he_throttle"]
    /\ UNCHANGED <<mutex_, throttler_mutex_, instance_mutex_, instance_,
                   constructed, th_ret, th_arg, th_i>>
    /\ UNCHANGED <<seqVars, gmVars, tmVars, hdVars>>

\* LogThrottler::ShouldLog called by HandleError: std::lock_guard lock(mutex_)
HandleErrorShouldLogLock(t) ==
    /\ pc[t] = "he_throttle"
    /\ throttler_mutex_ = 0
    /\ throttler_mutex_' = t
    /\ pc' = [pc EXCEPT ![t] = "he_shouldlog"]
    /\ UNCHANGED <<mutex_, instance_mutex_, instance_, constructed, th_ret,
                   th_arg, th_i, th_last_error, th_raced>>
    /\ UNCHANGED <<seqVars, gmVars, tmVars, hdVars>>

\* LogThrottler::ShouldLog: the body, then the lock_guard unlocks
HandleErrorShouldLog(t) ==
    /\ pc[t] = "he_shouldlog"
    /\ throttler_mutex_' = 0
    /\ pc' = [pc EXCEPT ![t] = "he_callback"]
    /\ UNCHANGED <<mutex_, instance_mutex_, instance_, constructed, th_ret,
                   th_arg, th_i, th_last_error, th_raced>>
    /\ UNCHANGED <<seqVars, gmVars, tmVars, hdVars>>

\* ErrorHandler::HandleError: error_callback_(error) with a callback that
\* calls HandleError, Reset or SetErrorCallback on the same handler.  The
\* call starts with a lock_guard on mutex_, which HandleError still holds:
\* std::mutex::lock() by the owner is undefined.  Either the thread waits
\* for the mutex ("cb_wait": only itself could unlock it), or lock() comes
\* back, the inner call runs, its lock_guard unlocks mutex_ and the callback
\* returns ("cb_done")
HandleErrorCallbackCalls(t) ==
    /\ pc[t] = "he_callback"
    /\ \/ pc' = [pc EXCEPT ![t] = "cb_wait"] /\ UNCHANGED mutex_
       \/ pc' = [pc EXCEPT ![t] = "cb_done"] /\ mutex_' = 0
    /\ UNCHANGED <<throttler_mutex_, instance_mutex_, instance_, constructed,
                   th_ret, th_arg, th_i, th_last_error, th_raced>>
    /\ UNCHANGED <<seqVars, gmVars, tmVars, hdVars>>

\* ErrorHandler::HandleError: error_callback_(error) has returned (or there
\* is no callback), then return strategy; the lock_guard unlocks
HandleErrorReturn(t) ==
    /\ pc[t] \in {"he_callback", "cb_done"}
    /\ mutex_' = 0
    /\ th_arg' = [th_arg EXCEPT ![t] = "SUCCESS"]
    /\ pc' = [pc EXCEPT ![t] = "idle"]
    /\ UNCHANGED <<throttler_mutex_, instance_mutex_, instance_, constructed,
                   th_ret, th_i, th_last_error, th_raced>>
    /\ UNCHANGED <<seqVars, gmVars, tmVars, hdVars>>

\* ErrorHandler::GetLastError and HasError: the read of last_error_ begins
GetLastErrorBegin(t) ==
    /\ HasHandler(t)
    /\ BeginAccess(t, FALSE)
    /\ pc' = [pc EXCEPT ![t] = "gl_read"]
    /\ UNCHANGED <<mutex_, throttler_mutex_, instance_mutex_, instance_,
                   constructed, th_ret, th_arg, th_i, th_last_error>>
    /\ UNCHANGED <<seqVars, gmVars, tmVars, hdVars>>

\* ErrorHandler::GetLastError and HasError: return last_error_; the caller
\* gets th_last_error, or anything if the read raced
GetLastError(t) ==
    /\ pc[t] = "gl_read"
    /\ th_raced' = th_raced \ {t}
    /\ pc' = [pc EXCEPT ![t] = "idle"]
    /\ UNCHANGED <<mutex_, throttler_mutex_, instance_mutex_, instance_,
                   constructed, th_ret, th_arg, th_i, th_last_error>>
    /\ UNCHANGED <<seqVars, gmVars, tmVars, hdVars>>

\* ErrorHandler::ClearError: last_error_ = ErrorReport(), the store begins
ClearErrorBegin(t) ==
    /\ HasHandler(t)
    /\ BeginAccess(t, TRUE)
    /\ pc' = [pc EXCEPT ![t] = "ce_write"]
    /\ UNCHANGED <<mutex_, throttler_mutex_, instance_mutex_, instance_,
                   constructed, th_ret, th_arg, th_i, th_last_error>>
    /\ UNCHANGED <<seqVars, gmVars, tmVars, hdVars>>

\* ErrorHandler::ClearError: last_error_ = ErrorReport(), the store ends
ClearError(t) ==
    /\ pc[t] = "ce_write"
    /\ th_last_error' \in StoreOutcomes(t, "SUCCESS")
    /\ th_raced' = th_raced \ {t}
    /\ pc' = [pc EXCEPT ![t] = "idle"]
    /\ UNCHANGED <<mutex_, throttler_mutex_, instance_mutex_, instance_,
                   constructed, th_ret, th_arg, th_i>>
    /\ UNCHANGED <<seqVars, gmVars, tmVars, hdVars>>

\* ErrorHandler::GetAggregateReports: throttler_.GetAggregateReport(code)
\* takes LogThrottler::mutex_
GetAggregateReportLock(t) ==
    /\ \/ HasHandler(t) /\ th_i' = [th_i EXCEPT ![t] = 0]
       \/ pc[t] = "gar_loop" /\ UNCHANGED th_i
    /\ throttler_mutex_ = 0
    /\ throttler_mutex_' = t
    /\ pc' = [pc EXCEPT ![t] = "gar_read"]
    /\ UNCHANGED <<mutex_, instance_mutex_, instance_, constructed, th_ret,
                   th_arg, th_last_error, th_raced>>
    /\ UNCHANGED <<seqVars, gmVars, tmVars, hdVars>>

\* LogThrottler::GetAggregateReport: the body, then the lock_guard unlocks;
\* ErrorHandler::GetAggregateReports: ++i, and return after the last code
GetAggregateReport(t) ==
    /\ pc[t] = "gar_read"
    /\ throttler_mutex_' = 0
    /\ IF th_i[t] < 7      \* i <= static_cast<int>(ErrorCode::GAMUT_OOG)
       THEN /\ th_i' = [th_i EXCEPT ![t] = th_i[t] + 1]
            /\ pc' = [pc EXCEPT ![t] = "gar_loop"]
       ELSE /\ th_i' = [th_i EXCEPT ![t] = 0]
            /\ pc' = [pc EXCEPT ![t] = "idle"]
    /\ UNCHANGED <<mutex_, instance_mutex_, instance_, constructed, th_ret,
                   th_arg, th_last_error, th_raced>>
    /\ UNCHANGED <<seqVars, gmVars, tmVars, hdVars>>

NextThreads ==
    \E t \in Threads :
        \/ InstanceLock(t)
        \/ InstanceCheck(t)
        \/ InstanceMake(t)
        \/ InstanceReturn(t)
        \/ \E code \in StoredCodes \ {"SUCCESS"} : HandleErrorLock(t, code)
        \/ HandleErrorWrite(t)
        \/ HandleErrorWritten(t)
        \/ HandleErrorShouldLogLock(t)
        \/ HandleErrorShouldLog(t)
        \/ HandleErrorCallbackCalls(t)
        \/ HandleErrorReturn(t)
        \/ GetLastErrorBegin(t)
        \/ GetLastError(t)
        \/ ClearErrorBegin(t)
        \/ ClearError(t)
        \/ GetAggregateReportLock(t)
        \/ GetAggregateReport(t)

(***************************************************************************)
(* The two-stage gamut processor                                           *)
(***************************************************************************)
ColorSpaces == {"BT2020_PQ", "P3_D65", "ACESG", "REC709"}
StandardGamuts == {"BT2020_PQ", "P3_D65", "REC709"}

\* the pixels handed to the gamut processor
GamutPixels ==
    LET v == {0 - 700, 0, 600, 1000, 1500, 2500, NaN}
    IN {<<r, g, b>> : r \in v, g \in v, b \in v}

\* OKLab_to_RGB leaves a finite pixel whatever it is given; these are the
\* pixels it can leave
OKLabPixels ==
    LET v == {0 - 1, 600, 1001}
    IN {<<r, g, b>> : r \in v, g \in v, b \in v}

max_iterations == 10

\* NumericalUtils::IsFiniteRGB
IsFiniteRGB(rgb) == IsFinite(rgb[1]) /\ IsFinite(rgb[2]) /\ IsFinite(rgb[3])

\* ColorSpaceConverter::IsInGamut
IsInGamut(rgb, cs) ==
    IF cs \in StandardGamuts
    THEN \A i \in 1..3 : FGe(rgb[i], 0) /\ FLe(rgb[i], 1000)
    ELSE IF cs = "ACESG"
    THEN \A i \in 1..3 : FGe(rgb[i], 0 - 500) /\ FLe(rgb[i], 2000)
    ELSE FALSE

\* ColorSpaceConverter::ClampToGamut
ClampToGamut(rgb, cs, nanClamp) ==
    IF cs = "ACESG"
    THEN [i \in 1..3 |-> Clamp(rgb[i], 0 - 500, 2000, nanClamp)]
    ELSE [i \in 1..3 |-> Clamp(rgb[i], 0, 1000, nanClamp)]

\* std::max(a, b) on ordered floats
Max2(a, b) == IF a < b THEN b ELSE a

\* ColorSpaceConverter::LinearGamutCompression
LinearGamutCompression(rgb, target_cs) ==
    IF ~IsFiniteRGB(rgb) THEN rgb
    ELSE LET max_val == Max2(Max2(rgb[1], rgb[2]), rgb[3])
         IN IF target_cs \in StandardGamuts
            THEN LET scaled == IF max_val > 1000
                               THEN [i \in 1..3 |-> (rgb[i] * 1000) \div max_val]
                               ELSE rgb
                 IN [i \in 1..3 |-> Max2(0, scaled[i])]
            ELSE LET scaled == IF max_val > 2000
                               THEN [i \in 1..3 |-> (rgb[i] * 2000) \div max_val]
                               ELSE rgb
                 IN [i \in 1..3 |-> Max2(0 - 500, scaled[i])]

\* the loop of PerceptualGamutClamp from iteration i on, where the iterates
\* before number k are out of gamut and test_rgb is what OKLab_to_RGB leaves
\* from iterate k on (callers try k = 0, some k, and k = max_iterations)
RECURSIVE PerceptualLoop(_, _, _, _, _)
PerceptualLoop(i, k, test_rgb, target_cs, nanClamp) ==
    IF i >= max_iterations
    THEN [rgb |-> ClampToGamut(test_rgb, target_cs, nanClamp), converged |-> "no"]
    ELSE IF i >= k /\ IsInGamut(test_rgb, target_cs)
    THEN [rgb |-> test_rgb, converged |-> "yes"]
    ELSE PerceptualLoop(i + 1, k, test_rgb, target_cs, nanClamp)

\* ColorSpaceConverter::PerceptualGamutClamp
PerceptualGamutClamp(rgb, target_cs, k, test_rgb, nanClamp) ==
    IF ~IsFiniteRGB(rgb) THEN [rgb |-> rgb, converged |-> "none"]
    ELSE PerceptualLoop(0, k, test_rgb, target_cs, nanClamp)

\* ColorSpaceConverter::ApplyGamutProcessing
ApplyGamutProcessing(rgb, target_cs, dci_compliance, k, test_rgb, nanClamp) ==
    IF ~IsFiniteRGB(rgb)
    THEN [rgb |-> rgb, ret |-> FALSE, converged |-> "none"]
    ELSE LET was_out_of_gamut == ~IsInGamut(rgb, target_cs)
             stage1 == LinearGamutCompression(rgb, target_cs)
             stage2 == IF dci_compliance \/ ~IsInGamut(stage1, target_cs)
                       THEN PerceptualGamutClamp(stage1, target_cs, k, test_rgb, nanClamp)
                       ELSE [rgb |-> stage1, converged |-> "none"]
         IN IF ~IsFiniteRGB(stage2.rgb)
            THEN [rgb |-> <<0, 0, 0>>, ret |-> FALSE, converged |-> stage2.converged]
            ELSE [rgb |-> ClampToGamut(stage2.rgb, target_cs, nanClamp),
                  ret |-> was_out_of_gamut, converged |-> stage2.converged]

\* CphProcessor::ApplySaturationProcessing, the body of its loop for one
\* pixel: sat_rgb is what ColorSpaceConverter::ApplySaturation leaves
ApplySaturationProcessing(pixel, dci_compliance, sat_rgb, k, test_rgb, nanClamp) ==
    IF ~IsFiniteRGB(pixel)
    THEN [rgb |-> <<0, 0, 0>>, ret |-> FALSE, converged |-> "none", logged |-> {}]
    ELSE LET g == ApplyGamutProcessing(sat_rgb, "BT2020_PQ", dci_compliance,
                                       k, test_rgb, nanClamp)
         IN [rgb |-> [i \in 1..3 |-> Clamp(g.rgb[i], 0, 1000, nanClamp)],
             ret |-> g.ret, converged |-> g.converged, logged |-> {}]

\* the calls whose results are examined
GamutCalls ==
    [op : {"ApplyGamutProcessing"}, rgb : GamutPixels, cs : ColorSpaces,
     dci : BOOLEAN]
    \cup [op : {"ApplySaturationProcessing"},
          rgb : {<<600, 600, 600>>, <<NaN, 600, 600>>, <<1500, 0, 0>>},
          cs : {"BT2020_PQ"}, dci : BOOLEAN]

\* before one of calls is made
InitGamut(calls) ==
    /\ gm_call \in calls
    /\ gm_done = FALSE
    /\ gm_rgb = gm_call.rgb
    /\ gm_ret = FALSE
    /\ gm_converged = "none"
    /\ gm_logged = {}

\* the call of the repository's GamutProcessing test
TestedGamutCall ==
    [op |-> "ApplyGamutProcessing", rgb |-> <<1500, 0 - 200, 800>>,
     cs |-> "P3_D65", dci |-> FALSE]

\* a caller of ColorSpaceConverter::ApplyGamutProcessing, which has no error
\* handler to record anything with
GmApplyGamutProcessing ==
    /\ ~gm_done
    /\ gm_call.op = "ApplyGamutProcessing"
    /\ \E k \in {0, 3, max_iterations}, test_rgb \in OKLabPixels :
           LET r == ApplyGamutProcessing(gm_call.rgb, gm_call.cs, gm_call.dci,
                                         k, test_rgb, clamp_nan)
           IN /\ gm_rgb' = r.rgb
              /\ gm_ret' = r.ret
              /\ gm_converged' = r.converged
              /\ gm_logged' = {}
    /\ gm_done' = TRUE
    /\ UNCHANGED gm_call
    /\ UNCHANGED <<seqVars, thrVars, tmVars, hdVars>>

\* CphProcessor::ApplySaturationProcessing on one pixel
GmApplySaturationProcessing ==
    /\ ~gm_done
    /\ gm_call.op = "ApplySaturationProcessing"
    /\ \E sat_rgb \in OKLabPixels, k \in {0, 3, max_iterations},
       test_rgb \in OKLabPixels :
           LET r == ApplySaturationProcessing(gm_call.rgb, gm_call.dci, sat_rgb,
                                              k, test_rgb, clamp_nan)
           IN /\ gm_rgb' = r.rgb
              /\ gm_ret' = r.ret
              /\ gm_converged' = r.converged
              /\ gm_logged' = r.logged
    /\ gm_done' = TRUE
    /\ UNCHANGED gm_call
    /\ UNCHANGED <<seqVars, thrVars, tmVars, hdVars>>

NextGamut == GmApplyGamutProcessing \/ GmApplySaturationProcessing

(***************************************************************************)
(* IEEE-754 binary32 arithmetic                                            *)
(*                                                                         *)
(* A float is <<m, e>>: zero is <<0, 0>>, a positive normal number is      *)
(* m * 2^e with 2^23 <= m < 2^24, and NaN, +Inf and -Inf are the three     *)
(* pairs below.  Every operation rounds to nearest, ties to even, as the   *)
(* float operators of the build do; intermediate integers stay below 2^31. *)
(***************************************************************************)
Zero32 == <<0, 0>>
\* NaN, +Inf and -Inf
NonFinite32 == {<<0, 1>>, <<0, 2>>, <<0, 3>>}
One32 == <<8388608, 0 - 23>>

\* std::isfinite, NumericalProtection::IsValid on a binary32
IsFinite32(a) == a[1] # 0 \/ a[2] = 0

RECURSIVE Pow2(_)
Pow2(k) == IF k = 0 THEN 1 ELSE 2 * Pow2(k - 1)

\* the k for which M \div 2^k has exactly 24 bits, for M >= 2^23
RECURSIVE ShiftOf(_)
ShiftOf(M) == IF M < 16777216 THEN 0 ELSE 1 + ShiftOf(M \div 2)

\* round (M + f) * 2^E to 24 bits, where M >= 2^23 and sticky tells whether
\* the discarded fraction f is non-zero
Round32(M, E, sticky) ==
    LET k == ShiftOf(M)
        q == M \div Pow2(k)
        r == M % Pow2(k)
        half == Pow2(k - 1)
        up == k > 0 /\ (r > half \/ (r = half /\ (sticky \/ q % 2 = 1)))
        q2 == IF up THEN q + 1 ELSE q
    IN IF q2 = 16777216 THEN <<8388608, E + k + 1>> ELSE <<q2, E + k>>

\* 0 < M < 2^24 shifted left into [2^23, 2^24), which is exact;
\* static_cast<float>(n) is Normalize32(n, 0)
RECURSIVE Normalize32(_, _)
Normalize32(M, E) == IF M >= 8388608 THEN <<M, E>> ELSE Normalize32(2 * M, E - 1)

\* operator< on non-negative floats
Lt32(a, b) ==
    IF a[1] = 0 THEN b[1] # 0
    ELSE IF b[1] = 0 THEN FALSE
    ELSE a[2] < b[2] \/ (a[2] = b[2] /\ a[1] < b[1])
Le32(a, b) == a = b \/ Lt32(a, b)

\* operator* on non-negative floats: the 48-bit product from 12-bit limbs
Mul32(a, b) ==
    IF a[1] = 0 \/ b[1] = 0 THEN Zero32
    ELSE LET ah == a[1] \div 4096
             al == a[1] % 4096
             bh == b[1] \div 4096
             bl == b[1] % 4096
             mid == ah * bl + al * bh
             lo_sum == (mid % 4096) * 4096 + al * bl
             lo == lo_sum % 16777216
             hi == ah * bh + mid \div 4096 + lo_sum \div 16777216
         IN Round32(hi * 4 + lo \div 4194304, a[2] + b[2] + 22,
                    lo % 4194304 # 0)

\* n more quotient bits of r / d after the quotient q
RECURSIVE DivLoop(_, _, _, _)
DivLoop(q, r, d, n) ==
    IF n = 0 THEN <<q, r>>
    ELSE IF 2 * r >= d THEN DivLoop(2 * q + 1, 2 * r - d, d, n - 1)
    ELSE DivLoop(2 * q, 2 * r, d, n - 1)

\* operator/ on a non-negative float and a positive one
Div32(a, b) ==
    IF a[1] = 0 THEN Zero32
    ELSE LET qr == DivLoop(a[1] \div b[1], a[1] % b[1], b[1], 26)
         IN Round32(qr[1], a[2] - b[2] - 26, qr[2] # 0)

\* the smaller operand of a sum or difference, with three guard bits, aligned
\* to an operand whose exponent is d higher: <<its bits, whether bits were lost>>
Aligned32(m, d) ==
    IF d > 26 THEN <<0, TRUE>>
    ELSE <<(m * 8) \div Pow2(d), (m * 8) % Pow2(d) # 0>>

\* operator+ on non-negative floats
Add32(a, b) ==
    IF a[1] = 0 THEN b
    ELSE IF b[1] = 0 THEN a
    ELSE LET hi == IF a[2] < b[2] THEN b ELSE a
             lo == IF a[2] < b[2] THEN a ELSE b
             al == Aligned32(lo[1], hi[2] - lo[2])
         IN Round32(hi[1] * 8 + al[1], hi[2] - 3, al[2])

\* operator- on floats a >= b >= 0
Sub32(a, b) ==
    IF b[1] = 0 THEN a
    ELSE IF a = b THEN Zero32
    ELSE LET al == Aligned32(b[1], a[2] - b[2])
             M == a[1] * 8 - al[1] - (IF al[2] THEN 1 ELSE 0)
         IN IF M >= 8388608 THEN Round32(M, a[2] - 3, al[2])
            ELSE Normalize32(M, a[2] - 3)

\* std::clamp(v, 0.0f, 1.0f) on a non-negative float
Saturate32(v) == IF Lt32(One32, v) THEN One32 ELSE v

(***************************************************************************)
(* ToneMapper                                                              *)
(***************************************************************************)
\* CphParams(): the members the RLOG curve, the soft knee and the toe read
DefaultCurveParams ==
    [curve |-> "PPR",
     rlog_a |-> <<8388608, 0 - 20>>,      \* 8.0f
     rlog_b |-> One32,                    \* 1.0f
     rlog_c |-> <<12582912, 0 - 23>>,     \* 1.5f
     rlog_t |-> <<9227469, 0 - 24>>,      \* 0.55f
     yknee |-> <<16273900, 0 - 24>>,      \* 0.97f
     alpha |-> <<10066330, 0 - 24>>,      \* 0.6f
     toe |-> <<8589935, 0 - 32>>]         \* 0.002f

\* a bundle whose members are all inside their ranges
SteepCurveParams ==
    [curve |-> "RLOG",
     rlog_a |-> One32,                    \* 1.0f
     rlog_b |-> <<9947830, 0 - 23>>,      \* 1.18587375f
     rlog_c |-> <<8388608, 0 - 24>>,      \* 0.5f
     rlog_t |-> <<11423574, 0 - 24>>,     \* 0.68089807f
     yknee |-> <<16454691, 0 - 24>>,      \* 0.980776012f
     alpha |-> One32,                     \* 1.0f
     toe |-> <<14942488, 0 - 31>>]        \* 0.0069581382f

\* the bundles handed to ToneMapper::Initialize: two valid ones and one whose
\* rlog_b = 2.0f is out of range
CurveBundles ==
    {[DefaultCurveParams EXCEPT !.curve = "RLOG"],
     SteepCurveParams,
     [DefaultCurveParams EXCEPT !.curve = "RLOG", !.rlog_b = <<8388608, 0 - 22>>]}

InRange32(v, lo, hi) == IsFinite32(v) /\ Le32(lo, v) /\ Le32(v, hi)

\* CphParams::IsValid, for the members carried here (the others keep their
\* defaults, which are valid)
IsValid32(p) ==
    \* rlog_a in [1.0f, 16.0f], rlog_b in [0.8f, 1.2f], rlog_c in [0.5f, 3.0f]
    /\ InRange32(p.rlog_a, One32, <<8388608, 0 - 19>>)
    /\ InRange32(p.rlog_b, <<13421773, 0 - 24>>, <<10066330, 0 - 23>>)
    /\ InRange32(p.rlog_c, <<8388608, 0 - 24>>, <<12582912, 0 - 22>>)
    \* rlog_t in [0.4f, 0.7f], yknee in [0.95f, 0.99f]
    /\ InRange32(p.rlog_t, <<13421773, 0 - 25>>, <<11744051, 0 - 24>>)
    /\ InRange32(p.yknee, <<15938355, 0 - 24>>, <<16609444, 0 - 24>>)
    \* alpha in [0.2f, 1.0f], toe in [0.0f, 0.01f]
    /\ InRange32(p.alpha, <<13421773, 0 - 26>>, One32)
    /\ InRange32(p.toe, Zero32, <<10737418, 0 - 30>>)

\* std::log(1.0f + a * x) / std::log(1.0f + a) at the blend point x = rlog_t
\* of SteepCurveParams (a = 1) and of the default bundle (a = 8), as the C
\* library computes it
StdLogQuotient(a, x) ==
    IF a = One32 /\ x = SteepCurveParams.rlog_t THEN <<12570032, 0 - 24>>
    ELSE <<12876735, 0 - 24>>

\* ToneMapper::RLOGDarkSegment at the blend point t
RLOGDarkSegment(p, x, log_rounding) ==
    IF x[1] = 0 THEN Zero32
    ELSE IF ~Lt32(x, One32) THEN One32
    ELSE LET q == StdLogQuotient(p.rlog_a, x)
         IN <<q[1] + log_rounding, q[2]>>

\* ToneMapper::RLOGHighlightSegment
RLOGHighlightSegment(p, x) ==
    IF x[1] = 0 THEN Zero32
    ELSE IF ~Lt32(x, One32) THEN Div32(p.rlog_b, Add32(One32, p.rlog_c))
    ELSE Div32(Mul32(p.rlog_b, x), Add32(One32, Mul32(p.rlog_c, x)))

\* ToneMapper::ApplyRLOG for x > t + blend_range
ApplyRLOG(p, x, log_rounding) ==
    LET dark_at_t == RLOGDarkSegment(p, p.rlog_t, log_rounding)
        highlight_raw_at_t == RLOGHighlightSegment(p, p.rlog_t)
        scale_factor == IF Lt32(Zero32, highlight_raw_at_t)
                        THEN Div32(dark_at_t, highlight_raw_at_t)
                        ELSE One32
    IN Mul32(RLOGHighlightSegment(p, x), scale_factor)

\* ToneMapper::ApplySoftKnee
ApplySoftKnee(p, y) ==
    IF Le32(y, p.yknee) THEN y
    ELSE LET excess == Sub32(y, p.yknee)
             max_excess == Sub32(One32, p.yknee)
             normalized_excess == Div32(excess, max_excess)
             compressed_excess ==
                 Div32(normalized_excess,
                       Add32(One32, Mul32(p.alpha, normalized_excess)))
         IN IF max_excess[1] = 0 THEN p.yknee
            ELSE Add32(p.yknee, Mul32(compressed_excess, max_excess))

\* ToneMapper::ApplyToeClamp
ApplyToeClamp(p, y) ==
    IF p.toe[1] = 0 \/ y[1] = 0 THEN y
    ELSE IF Lt32(y, p.toe) THEN p.toe ELSE y

\* ToneMapper::ApplyToneMapping
ApplyToneMapping(initialized_, p, luminance, log_rounding) ==
    IF ~initialized_ THEN luminance
    ELSE IF ~IsFinite32(luminance) THEN Zero32
    ELSE LET x == Saturate32(luminance)
         IN Saturate32(ApplyToeClamp(p, ApplySoftKnee(p, ApplyRLOG(p, x, log_rounding))))

\* ToneMapper::GenerateSamplePoints: the uniform point number i of the
\* sample_count = 4096 ones
UniformPoint(i) == Div32(Normalize32(i, 0), Normalize32(4096 - 1, 0))

\* ToneMapper::GenerateSamplePoints: the RLOG problem point number j of the
\* problem_points = 256 ones, for j > 128, where the offset is positive:
\* (static_cast<float>(j) / 256 - 0.5f) * 0.2f
ProblemPoint(p, j) ==
    LET offset == Mul32(Sub32(Div32(Normalize32(j, 0), Normalize32(256, 0)),
                              <<8388608, 0 - 24>>), <<13421773, 0 - 26>>)
    IN Saturate32(Add32(p.rlog_t, offset))

\* how many consecutive sample points the calls are made on
GridSpan == 2
\* how many ApplyToneMapping calls are followed after an Initialize
MaxCalls == 2

\* the values ApplyToneMapping is called on: sample points of
\* ValidateMonotonicity's grid and the three non-finite floats
CurveInputs(p) ==
    {UniformPoint(i) : i \in (3104..(3104 + GridSpan)) \cup {4094, 4095}}
    \cup {ProblemPoint(p, j) : j \in 226..(226 + GridSpan)}
    \cup NonFinite32

\* ToneMapper::ToneMapper(), on a build whose std::log is off by one of
\* roundings units in the last place
InitToneMapper(roundings) ==
    /\ tm_initialized = FALSE
    /\ tm_params = DefaultCurveParams
    /\ tm_last_error = ""
    /\ tm_log \in roundings
    /\ tm_in = <<>>
    /\ tm_out = <<>>
    /\ toe_call = <<>>

\* ToneMapper::Initialize
TmInitialize(params) ==
    /\ IF ~IsValid32(params)
       THEN /\ tm_last_error' = "invalid tone mapping parameters"
            /\ UNCHANGED <<tm_initialized, tm_params, tm_in, tm_out>>
       ELSE /\ tm_params' = params
            /\ tm_initialized' = TRUE
            /\ tm_last_error' = ""
            /\ tm_in' = <<>>
            /\ tm_out' = <<>>
    /\ UNCHANGED <<tm_log, toe_call>>
    /\ UNCHANGED <<seqVars, thrVars, gmVars, hdVars>>

\* a caller of ToneMapper::ApplyToneMapping, such as ValidateMonotonicity
TmApplyToneMapping(luminance) ==
    /\ Len(tm_out) < MaxCalls
    /\ (tm_initialized /\ IsFinite32(luminance))
           \* ApplyRLOG's pure highlight branch: x > t + blend_range (0.05f)
           => Lt32(Add32(tm_params.rlog_t, <<13421773, 0 - 28>>),
                   Saturate32(luminance))
    /\ tm_in' = Append(tm_in, luminance)
    /\ tm_out' = Append(tm_out, ApplyToneMapping(tm_initialized, tm_params,
                                                 luminance, tm_log))
    /\ UNCHANGED <<tm_initialized, tm_params, tm_last_error, tm_log, toe_call>>
    /\ UNCHANGED <<seqVars, thrVars, gmVars, hdVars>>

\* ToneMappingUtils::ToeClamp: std::max(y, toe) is (y < toe) ? toe : y
ToeClamp(y, toe) == IF Lt32(y, toe) THEN toe ELSE y

\* the last stage of ToneMapper::ApplyToneMapping on the value y, and the
\* ToneMappingUtils helper on the same value and the mapper's toe
TmToeClamp(y) ==
    /\ toe_call' = <<[y |-> y, toe |-> tm_params.toe,
                      mapper |-> ApplyToeClamp(tm_params, y),
                      utils |-> ToeClamp(y, tm_params.toe)]>>
    /\ UNCHANGED <<tm_initialized, tm_params, tm_last_error, tm_log, tm_in, tm_out>>
    /\ UNCHANGED <<seqVars, thrVars, gmVars, hdVars>>

NextCurve ==
    \/ \E params \in CurveBundles : TmInitialize(params)
    \/ \E luminance \in CurveInputs(tm_params) : TmApplyToneMapping(luminance)

\* the toe clamps on 0, 0.001 (under every toe of CurveBundles), 0.002 (the
\* default toe), 0.005 (between the two toes), 0.5 and 1
NextToe ==
    \/ \E params \in CurveBundles : TmInitialize(params)
    \/ \E y \in {Zero32, <<8589935, 0 - 33>>, <<8589935, 0 - 32>>,
                 <<10737418, 0 - 31>>, <<8388608, 0 - 24>>, One32} :
           TmToeClamp(y)

(***************************************************************************)
(* HighlightDetailProcessor.  A frame is <<v>>, the image all of whose     *)
(* pixels have R = G = B = v (in thousandths), or <<>>, no image (a null   *)
(* previous_frame argument, a cleared previous_frame_).                    *)
(***************************************************************************)

\* how many motion energies are followed after an Initialize or a Reset
MaxEnergies == 11

\* HighlightDetailProcessor::HighlightDetailProcessor()
InitDetail ==
    /\ hd_proc = [initialized_ |-> FALSE, params_ |-> DefaultParams]
    /\ has_previous_frame_ = FALSE
    /\ previous_frame_ = <<>>
    /\ motion_energy_history_ = <<>>
    /\ hd_energies = <<>>
    /\ hd_call = [op |-> "none", current |-> <<>>, supplied |-> FALSE,
                  ret |-> FALSE, output |-> <<>>, intensity |-> 0, suppressed |-> FALSE,
                  energy |-> <<>>]

\* HighlightDetailProcessor::ApplyUSM on a frame of one value: blurring it
\* gives the same value up to rounding, so the difference d is under the
\* threshold 0.03 and the detail layer is 0 whatever the intensity is; the
\* output is the input plus 0 times the mask, clamped to [0, 1]
ApplyUSM(input, pivot_threshold, intensity) ==
    LET d == 0
        detail == IF d > 30 \/ 0 - d > 30 THEN (d * intensity) \div 1000 ELSE 0
        mask_value == IF FGt(input[1], pivot_threshold)
                      THEN Clamp(((input[1] - pivot_threshold) * 1000)
                                     \div (1000 - pivot_threshold), 0, 1000, "v")
                      ELSE 0
    IN <<Clamp(input[1] + (detail * mask_value) \div 1000, 0, 1000, "v")>>

\* HighlightDetailProcessor::ComputeMotionEnergy on two frames of one value
\* each: every pixel over the pivot has the same difference, whose absolute
\* value is the root of the mean square
ComputeMotionEnergy(current, previous, pivot_threshold) ==
    IF ~FGt(current[1], pivot_threshold) THEN 0
    ELSE LET diff == current[1] - previous[1]
         IN Clamp(IF diff < 0 THEN 0 - diff ELSE diff, 0, 1000, "v")

\* std::accumulate over the history
RECURSIVE Accumulate(_)
Accumulate(history) ==
    IF history = <<>> THEN 0 ELSE Head(history) + Accumulate(Tail(history))

\* HighlightDetailProcessor::ShouldSuppressDetail: motion_threshold is 0.02f
\* and the mean of the history is compared with motion_threshold * 0.5f
ShouldSuppressDetail(motion_energy, history) ==
    \/ motion_energy > 20
    \/ history # <<>> /\ Accumulate(history) > 10 * Len(history)

\* the history that keeps every value
PushMotionEnergyNoErase(history, motion_energy) == Append(history, motion_energy)

\* the history that drops the new value once it holds 10
PushMotionEnergyKeepOldest(history, motion_energy) ==
    IF Len(history) >= 10 THEN history ELSE Append(history, motion_energy)

\* ProcessFrameWithMotionProtection: push_back of the new value, then erase
\* of begin() when the history holds more than 10
PushMotionEnergy(history, motion_energy) ==
    LET pushed == Append(history, motion_energy)
    IN IF Len(pushed) > 10 THEN Tail(pushed) ELSE pushed

\* HighlightDetailProcessor::Initialize, with the Reset it ends with
HdInitialize(params) ==
    LET r == HighlightInitialize(hd_proc, params)
    IN /\ hd_proc' = r.hp
       /\ IF r.ok
          THEN /\ has_previous_frame_' = FALSE
               /\ motion_energy_history_' = <<>>
               /\ previous_frame_' = <<>>
          ELSE UNCHANGED <<has_previous_frame_, motion_energy_history_,
                           previous_frame_>>
       /\ hd_energies' = <<>>
       /\ hd_call' = [op |-> "Initialize", current |-> <<>>, supplied |-> FALSE,
                      ret |-> r.ok, output |-> <<>>, intensity |-> 0, suppressed |-> FALSE,
                      energy |-> <<>>]
       /\ UNCHANGED <<seqVars, thrVars, gmVars, tmVars>>

\* HighlightDetailProcessor::Reset
HdReset ==
    /\ has_previous_frame_' = FALSE
    /\ motion_energy_history_' = <<>>
    /\ previous_frame_' = <<>>
    /\ hd_energies' = <<>>
    /\ hd_call' = [op |-> "Reset", current |-> <<>>, supplied |-> FALSE,
                   ret |-> TRUE, output |-> <<>>, intensity |-> 0, suppressed |-> FALSE,
                   energy |-> <<>>]
    /\ UNCHANGED <<hd_proc, seqVars, thrVars, gmVars, tmVars>>

\* HighlightDetailProcessor::ProcessFrame
HdProcessFrame(input, pivot_threshold) ==
    LET detail == hd_proc.params_.highlight_detail
        ok == hd_proc.initialized_ /\ input # <<>> /\ IsFinite(input[1])
    IN /\ hd_call' = [op |-> "ProcessFrame", current |-> input,
                      supplied |-> FALSE, ret |-> ok,
                      output |-> IF ~ok THEN <<>>
                                 ELSE IF FLe(detail, 0) THEN input
                                 ELSE ApplyUSM(input, pivot_threshold, detail),
                      intensity |-> detail, suppressed |-> FALSE,
                      energy |-> <<>>]
       /\ UNCHANGED <<hd_proc, has_previous_frame_, previous_frame_,
                      motion_energy_history_, hd_energies>>
       /\ UNCHANGED <<seqVars, thrVars, gmVars, tmVars>>

\* HighlightDetailProcessor::ProcessFrameWithMotionProtection; previous is
\* <<>> for a null previous_frame
HdProcessFrameWithMotionProtection(current_frame, previous_frame, pivot_threshold) ==
    LET detail == hd_proc.params_.highlight_detail
        detect == /\ previous_frame # <<>> /\ IsFinite(previous_frame[1])
                  /\ has_previous_frame_
        motion_energy == ComputeMotionEnergy(current_frame, previous_frame,
                                             pivot_threshold)
        history == PushMotionEnergy(motion_energy_history_, motion_energy)
        suppress == detect /\ ShouldSuppressDetail(motion_energy, history)
        effective_intensity ==
            IF suppress THEN (detail * 500) \div 1000 ELSE detail
    IN IF ~hd_proc.initialized_
       THEN /\ hd_call' = [op |-> "ProcessFrameWithMotionProtection",
                           current |-> current_frame,
                           supplied |-> previous_frame # <<>>, ret |-> FALSE,
                           output |-> <<>>, intensity |-> 0, suppressed |-> FALSE,
                           energy |-> <<>>]
            /\ UNCHANGED <<hd_proc, has_previous_frame_, previous_frame_,
                           motion_energy_history_, hd_energies>>
            /\ UNCHANGED <<seqVars, thrVars, gmVars, tmVars>>
       ELSE /\ detect => Len(hd_energies) < MaxEnergies
            /\ motion_energy_history_' =
                   IF detect THEN history ELSE motion_energy_history_
            /\ hd_energies' =
                   IF detect THEN Append(hd_energies, motion_energy)
                   ELSE hd_energies
            /\ previous_frame_' = current_frame
            /\ has_previous_frame_' = TRUE
            /\ hd_call' = [op |-> "ProcessFrameWithMotionProtection",
                           current |-> current_frame,
                           supplied |-> previous_frame # <<>>, ret |-> TRUE,
                           output |-> ApplyUSM(current_frame, pivot_threshold,
                                               effective_intensity),
                           intensity |-> effective_intensity,
                           suppressed |-> suppress,
                           energy |-> IF detect THEN <<motion_energy>> ELSE <<>>]
            /\ UNCHANGED <<hd_proc, seqVars, thrVars, gmVars, tmVars>>

\* the calls of ProcessFrameWithMotionProtection: a frame at 0.5 or 1.5 with
\* no previous frame, 0.5 after 0.5 (motion 0), 0.8 after 0.2 (motion 0.6)
\* and 0.5 with a previous frame that holds a NaN
MotionCalls ==
    {<<<<500>>, <<>>>>, <<<<1500>>, <<>>>>, <<<<500>>, <<500>>>>,
     <<<<800>>, <<200>>>>, <<<<500>>, <<NaN>>>>}

\* the pivot is the one of the test, zero_params.pivot_pq = 0.18f
NextDetail ==
    \/ \E params \in {DefaultParams, [DefaultParams EXCEPT !.highlight_detail = 0]} :
           HdInitialize(params)
    \/ HdReset
    \/ \E input \in {<<500>>, <<1500>>} : HdProcessFrame(input, 180)
    \/ \E c \in MotionCalls :
           HdProcessFrameWithMotionProtection(c[1], c[2], 180)

InitRest ==
    /\ InitThreads /\ InitGamut({TestedGamutCall}) /\ InitToneMapper({0})
    /\ InitDetail

vars == <<now, throttle_map, grants, last_error_, current_strategy_,
          error_callback_, clamp_nan, eh_call, eh_ret, eh_params, eh_events,
          eh_callbacks, eh_logged, nops, initialized, current_params,
          current_stats, error_history, last_error, tone_mapper,
          highlight_processor, output, pr_call, pr_ret, pr_logged, pr_trace,
          curve_validations, stored_params, init_seen, frames_ok, restVars>>

InitThrottle ==
    InitThrottler /\ InitHandler /\ InitProcessor /\ clamp_nan = "v" /\ InitRest

NextThrottle == ThShouldLog \/ ThTick \/ ThReset

SpecThrottle == InitThrottle /\ [][NextThrottle]_vars

InitEH ==
    /\ InitThrottler /\ InitHandler /\ InitProcessor /\ InitRest
    /\ clamp_nan \in NanClampOutcomes

NextEH ==
    \/ \E c \in ErrorCodes : EHHandleError(c)
    \/ \E p \in Bundles : EHValidateAndCorrectParams(p)
    \/ EHReset
    \/ EHClearError
    \/ \E on \in BOOLEAN : EHSetErrorCallback(on)
    \/ EHTick

SpecEH == InitEH /\ [][NextEH]_vars

\* the ErrorHandler and throttler variables, which a CphProcessor never touches
ehthVars == <<now, throttle_map, grants, last_error_, current_strategy_,
              error_callback_, clamp_nan, eh_call, eh_ret, eh_params,
              eh_events, eh_callbacks, eh_logged, nops>>

PrInitialize == \E p \in InitBundles : Initialize(p) /\ UNCHANGED <<ehthVars, restVars>>
PrProcessFrame ==
    \E input \in InputFrames :
        LET runs == initialized /\ ImageIsValid(input)
            first == runs /\ current_stats.frame_count = 0
        IN \E throwAt \in (IF runs THEN ThrowSites ELSE {"none"}),
              m \in (IF first THEN BOOLEAN ELSE {TRUE}),
              c \in (IF first THEN BOOLEAN ELSE {TRUE}) :
               ProcessFrame(input, throwAt, m, c) /\ UNCHANGED <<ehthVars, restVars>>
PrResetStatistics == ResetStatistics /\ UNCHANGED <<ehthVars, restVars>>
PrClearErrors == ClearErrors /\ UNCHANGED <<ehthVars, restVars>>
PrSetDeterministicMode ==
    \E enabled \in BOOLEAN : SetDeterministicMode(enabled) /\ UNCHANGED <<ehthVars, restVars>>
PrSetDCIComplianceMode ==
    \E enabled \in BOOLEAN : SetDCIComplianceMode(enabled) /\ UNCHANGED <<ehthVars, restVars>>

Init == InitThrottler /\ InitHandler /\ InitProcessor /\ clamp_nan = "v" /\ InitRest
Next ==
    \/ PrInitialize
    \/ PrProcessFrame
    \/ PrResetStatistics
    \/ PrClearErrors
    \/ PrSetDeterministicMode
    \/ PrSetDCIComplianceMode
Spec == Init /\ [][Next]_vars

\* threads calling the GlobalErrorHandler and the handler it returns
SpecThreads == Init /\ [][NextThreads]_vars

\* single calls of the gamut processor on every pixel of GamutPixels
InitGamutSpec ==
    /\ InitThrottler /\ InitHandler /\ InitProcessor /\ clamp_nan = "v"
    /\ InitThreads /\ InitGamut(GamutCalls) /\ InitToneMapper({0})
    /\ InitDetail
SpecGamut == InitGamutSpec /\ [][NextGamut]_vars

\* a ToneMapper, on builds whose std::log rounds to the nearest float or to
\* one of its neighbours
InitCurveSpec ==
    /\ InitThrottler /\ InitHandler /\ InitProcessor /\ clamp_nan = "v"
    /\ InitThreads /\ InitGamut({TestedGamutCall}) /\ InitToneMapper({0 - 1, 0, 1})
    /\ InitDetail
SpecCurve == InitCurveSpec /\ [][NextCurve]_vars

\* the toe clamps of a ToneMapper and of ToneMappingUtils
SpecToe == InitCurveSpec /\ [][NextToe]_vars

\* a HighlightDetailProcessor and its callers
SpecDetail == Init /\ [][NextDetail]_vars


(***************************************************************************)
(* Properties of the error handler and the throttler                       *)
(***************************************************************************)
\* the tier the taxonomy assigns to a code
TaxonomyTier(c) ==
    CASE c \in {"RANGE_PIVOT", "RANGE_KNEE"} -> "PARAMETER_CORRECTION"
      [] c \in {"SCHEMA_MISSING", "DET_MISMATCH", "HL_FLICKER", "DCI_BOUND",
                "GAMUT_OOG"} -> "STANDARD_FALLBACK"
      [] c = "NAN_INF" -> "HARD_FALLBACK"

\* C2: whatever was handled before, HandleError returns the tier the taxonomy
\* assigns to the code it was called with.
C2_TierPerCode ==
    eh_call.op = "HandleError" => eh_ret = TaxonomyTier(eh_call.code)

\* a second call on the handler was HandleError(HL_FLICKER), after a first
\* call that left another strategy selected
C2_Witness ==
    /\ eh_call.op = "HandleError"
    /\ eh_call.code = "HL_FLICKER"
    /\ nops = 2
    /\ eh_ret = "STANDARD_FALLBACK"

RECURSIVE GrantsBetween(_, _, _)
\* the number of ShouldLog(c) calls at ticks a..b that returned true
GrantsBetween(c, a, b) ==
    IF a > b THEN 0 ELSE grants[c][a] + GrantsBetween(c, a + 1, b)

C4_CallbackOnEveryError ==
    eh_call.op \in {"HandleError", "ValidateAndCorrectParams"} =>
        /\ eh_callbacks = (IF eh_call.cb THEN eh_events ELSE <<>>)
        /\ eh_call.op = "HandleError" =>
               /\ Len(eh_events) = 1
               /\ eh_events[1].code = eh_call.code

\* a HandleError whose log line was throttled delivered its report
C4_Witness ==
    /\ eh_call.cb
    /\ \E i \in 1..Len(eh_events) :
           /\ ~eh_logged[i]
           /\ Len(eh_callbacks) >= i
           /\ eh_callbacks[i] = eh_events[i]

\* C5: the bundle is valid once ValidateAndCorrectParams has returned.
C5_ValidAfterCorrection ==
    eh_call.op = "ValidateAndCorrectParams" => IsValid(eh_params)

\* a bundle mixing in-range, out-of-range, NaN, +Inf and -Inf fields went in
C5_Witness ==
    /\ eh_call.op = "ValidateAndCorrectParams"
    /\ eh_call.params = Mixed(2)
    /\ ~IsValid(eh_call.params)
    /\ eh_ret = TRUE
    /\ IsValid(eh_params)

OutOfRange(f, v) == NumIsValid(v) /\ (FLt(v, RangeMin[f]) \/ FGt(v, RangeMax[f]))

C7_NonFiniteToMidpoint ==
    (eh_call.op = "ValidateAndCorrectParams" /\ clamp_nan = "v") =>
        \A f \in Fields :
            ~NumIsValid(eh_call.params[f]) =>
                /\ eh_params[f] = Midpoint(f)
                /\ ClampToValidRange(eh_call.params)[f] = Midpoint(f)

\* C8: every corrected field has a report, and a report's code matches the
\* fault: NAN_INF for a non-finite value, RANGE_PIVOT for pivot_pq out of
\* range, RANGE_KNEE for yknee, alpha or toe out of range.
C8_CodeMatchesFault ==
    eh_call.op = "ValidateAndCorrectParams" =>
        /\ \A f \in Fields :
               eh_params[f] # eh_call.params[f] =>
                   \E i \in 1..Len(eh_events) : eh_events[i].field_name = f
        /\ \A i \in 1..Len(eh_events) :
               LET e == eh_events[i]
               IN /\ ~NumIsValid(e.invalid_value) => e.code = "NAN_INF"
                  /\ (NumIsValid(e.invalid_value) /\ e.field_name = "pivot_pq")
                         => e.code = "RANGE_PIVOT"
                  /\ (NumIsValid(e.invalid_value)
                        /\ e.field_name \in {"yknee", "alpha", "toe"})
                         => e.code = "RANGE_KNEE"

(***************************************************************************)
(* CphProcessor claims                                                     *)
(***************************************************************************)
LoggedCode(code) == \E i \in 1..Len(pr_logged) : pr_logged[i].code = code

\* the frame a hard fallback would emit: the input through the working-domain
\* round trip only
IdentityOutput(input) ==
    [src |-> input, stages |-> <<"ToWorkingDomain", "FromWorkingDomain">>]

\* C1: whenever a ProcessFrame call raises NAN_INF, the call still emits an
\* output frame, and that frame is the identity mapping of its input (only the
\* working-domain round trip applied).
C1_IdentityOnNanInf ==
    (pr_call.op = "ProcessFrame" /\ LoggedCode("NAN_INF"))
        => output = IdentityOutput(pr_call.input)

\* C9: an Initialize call whose bundle fails validation returns false, records
\* at least one error so that the last-error text is non-empty, and leaves the
\* initialized flag and the active parameters as they were before the call.
C9_FailedInitialize ==
    [][(pr_call'.op = "Initialize" /\ ValidateCphParams(pr_call'.params) # <<>>)
          => /\ pr_ret' = FALSE
             /\ Len(error_history') > Len(error_history)
             /\ last_error' # <<>>
             /\ initialized' = initialized
             /\ current_params' = current_params]_vars

\* a processor running on RLOG parameters has just refused a PPR bundle
C9_Witness ==
    /\ pr_call.op = "Initialize"
    /\ ValidateCphParams(pr_call.params) # <<>>
    /\ pr_call.params.curve = "PPR"
    /\ pr_ret = FALSE
    /\ initialized
    /\ current_params.curve = "RLOG"
    /\ last_error # <<>>

C11_ValidationOncePerInitialize == curve_validations # "again"

\* C12: every error raised while a frame is processed is delivered before the
\* frame counter is incremented for that frame.
C12_ErrorsBeforePublication ==
    \A i \in 1..Len(pr_trace), j \in 1..Len(pr_trace) :
        (pr_trace[i] = "UpdateStatistics" /\ pr_trace[j] = "LogError") => j < i

ModeFlags == {"deterministic", "dci_compliance"}

\* C13 as stated: between two successful Initialize calls nothing changes the
\* parameter bundle, so what ProcessFrame reads is what Initialize stored.
C13_BundleImmutable == current_params = stored_params

\* C13: between two successful Initialize calls only the deterministic and
\* dci_compliance flags of the bundle change; every other field that
\* ProcessFrame reads is what the most recent successful Initialize stored.
C13_OnlyModeFlagsChange ==
    \A f \in (DOMAIN current_params) \ ModeFlags :
        current_params[f] = stored_params[f]

\* a frame has been processed on an RLOG bundle whose DCI flag was switched on
\* after Initialize
C13_Witness ==
    /\ pr_call.op = "ProcessFrame"
    /\ pr_ret = TRUE
    /\ stored_params.curve = "RLOG"
    /\ current_params.dci_compliance = TRUE
    /\ stored_params.dci_compliance = FALSE

C14_AccessUnderMutex ==
    \A t \in Threads :
        pc[t] \in WritesLastError \cup ReadsLastError \cup TouchesThrottleMap
            => mutex_ = t

\* C15: at most one ErrorHandler is ever constructed, and every Instance()
\* call has returned the one that instance_ owns.
C15_OneInstance ==
    /\ constructed <= 1
    /\ \A t \in Threads : th_ret[t] # 0 => th_ret[t] = instance_

\* every thread has called Instance() and got a handler, and one of them is
\* inside a second call while another uses the handler
C15_Witness ==
    /\ \A t \in Threads : th_ret[t] # 0
    /\ constructed = 1
    /\ \E t \in Threads : pc[t] = "in_ret"
    /\ \E t \in Threads : pc[t] = "he_callback"

(***************************************************************************)
(* Properties of the gamut processor                                       *)
(***************************************************************************)
\* C17: the pixel that ApplyGamutProcessing leaves lies inside the gamut box
\* of the target colour space, whatever the input pixel, the target and the
\* DCI setting.
C17_InGamutBox ==
    (gm_done /\ gm_call.op = "ApplyGamutProcessing")
        => IsInGamut(gm_rgb, gm_call.cs)

\* C18: whenever the perceptual clamp's loop ends without an in-gamut
\* iterate, an error with code GAMUT_OOG has been recorded.
C18_NonConvergenceRecorded ==
    (gm_done /\ gm_converged = "no") => "GAMUT_OOG" \in gm_logged

(***************************************************************************)
(* Properties of the tone curve                                            *)
(***************************************************************************)
\* C19: on an initialized mapper, for sample points x <= x' of the validation
\* grid, 0 <= apply(x) <= apply(x') <= 1.
C19_MonotoneOnGrid ==
    tm_initialized =>
        \A i \in 1..Len(tm_out), j \in 1..Len(tm_out) :
            (/\ IsFinite32(tm_in[i]) /\ IsFinite32(tm_in[j])
             /\ Le32(tm_in[i], tm_in[j]))
                => (/\ Le32(Zero32, tm_out[i])
                    /\ Le32(tm_out[i], tm_out[j])
                    /\ Le32(tm_out[j], One32))

\* C20: every ApplyToneMapping call on a non-finite value returned 0,
\* whenever it was made.
C20_ZeroOnNonFinite ==
    \A k \in 1..Len(tm_out) : ~IsFinite32(tm_in[k]) => tm_out[k] = Zero32

\* C21: the toe clamp maps 0 to 0 and every y > 0 to a value that is at
\* least toe, in the tone mapper (ApplyToeClamp) and in the helper
\* ToneMappingUtils::ToeClamp alike
C21_ToeClampKeepsZero ==
    \A k \in 1..Len(toe_call) :
        LET c == toe_call[k]
        IN /\ c.y = Zero32 => (c.mapper = Zero32 /\ c.utils = Zero32)
           /\ Lt32(Zero32, c.y) => (Le32(c.toe, c.mapper) /\ Le32(c.toe, c.utils))

\* C22: with highlight_detail = 0 the output frame of ProcessFrame and of
\* ProcessFrameWithMotionProtection equals the input frame pixel for pixel
C22_ZeroDetailIdentity ==
    (/\ hd_call.op \in {"ProcessFrame", "ProcessFrameWithMotionProtection"}
     /\ hd_call.ret
     /\ hd_proc.params_.highlight_detail = 0)
        => hd_call.output = hd_call.current

\* C23: every call in which a previous frame is supplied computes the motion
\* energy, and halves the detail intensity exactly when that energy is over
\* 0.02 or the mean of the history is over 0.01
C23_SuppliedFrameDecides ==
    (/\ hd_call.op = "ProcessFrameWithMotionProtection"
     /\ hd_call.ret
     /\ hd_call.supplied)
        => /\ hd_call.energy # <<>>
           /\ hd_call.suppressed
                  <=> \/ hd_call.energy[1] > 20
                      \/ Accumulate(motion_energy_history_)
                             > 10 * Len(motion_energy_history_)
           /\ hd_call.intensity =
                  IF hd_call.suppressed
                  THEN hd_proc.params_.highlight_detail \div 2
                  ELSE hd_proc.params_.highlight_detail

\* C24: the history holds the min(n, 10) latest of the n motion energies
\* computed since the last Reset or Initialize, oldest first, and never more
\* than 10 values
C24_HistoryIsLatestTen ==
    LET n == Len(hd_energies)
        k == IF n < 10 THEN n ELSE 10
    IN /\ Len(motion_energy_history_) = k
       /\ \A i \in 1..k : motion_energy_history_[i] = hd_energies[n - k + i]

\* an eleventh value has pushed the first one, which differed from the
\* second, out of the history
C24_Witness ==
    /\ Len(hd_energies) = 11
    /\ hd_energies[1] # hd_energies[2]
    /\ hd_call.op = "ProcessFrameWithMotionProtection"
    /\ hd_call.energy # <<>>

\* C30: once the 10 latest motion energies are all 0, no motion-protected
\* call suppresses the detail
C30_StillFramesEndSuppression ==
    (/\ hd_call.op = "ProcessFrameWithMotionProtection"
     /\ hd_call.ret
     /\ Len(hd_energies) >= 10
     /\ \A i \in (Len(hd_energies) - 9)..Len(hd_energies) : hd_energies[i] = 0)
        => /\ ~hd_call.suppressed
           /\ hd_call.intensity = hd_proc.params_.highlight_detail

\* the tenth call with motion 0 after a call with motion 0.6, whose detail
\* is not suppressed while the ninth's was
C30_Witness ==
    /\ Len(hd_energies) = 11
    /\ hd_energies[1] = 600
    /\ \A i \in 2..11 : hd_energies[i] = 0
    /\ hd_call.op = "ProcessFrameWithMotionProtection"
    /\ hd_call.energy = <<0>>
    /\ ~hd_call.suppressed
    /\ hd_proc.params_.highlight_detail = 200

\* C25: throttling is independent per error code: a call changes what the
\* throttler holds for code c, and with it whether the next log for c is
\* allowed, only if the call reported an error with code c (or was a Reset)
C25_IndependentPerCode ==
    [][\A c \in AllCodes :
          throttle_map'[c] # throttle_map[c]
              => \/ eh_call'.op = "Reset"
                 \/ \E i \in 1..Len(eh_events') : eh_events'[i].code = c]_vars

\* C26: HandleError always returns, also when the callback calls
\* HandleError, Reset or SetErrorCallback on the same handler: no thread
\* waits for mutex_ while it holds it itself (a wait that cannot end, as only
\* the holder unlocks)
C26_CallbackCannotBlock ==
    \A t \in Threads : pc[t] = "cb_wait" => mutex_ # t

\* C27: between two Resets the current fallback strategy never becomes less
\* severe: HARD_FALLBACK stays, and STANDARD_FALLBACK does not go back to
\* PARAMETER_CORRECTION
C27_NeverLessSevere ==
    [][eh_call'.op # "Reset"
          => /\ current_strategy_ = "HARD_FALLBACK"
                    => current_strategy_' = "HARD_FALLBACK"
             /\ current_strategy_ = "STANDARD_FALLBACK"
                    => current_strategy_' # "PARAMETER_CORRECTION"]_vars

\* C27, amended: the current fallback strategy is the tier of the error
\* handled last; Reset sets PARAMETER_CORRECTION and every other call
\* leaves the strategy as it is
C27_StrategyOfLatestError ==
    [][current_strategy_' =
           IF nops' # nops /\ eh_events' # <<>>
           THEN DetermineFallbackStrategy(eh_events'[Len(eh_events')].code)
           ELSE IF eh_call'.op = "Reset" /\ nops' # nops
           THEN "PARAMETER_CORRECTION"
           ELSE current_strategy_]_vars

\* a RANGE_PIVOT error handled after a NAN_INF error, with no Reset between
\* them, has brought the strategy down from HARD_FALLBACK
C27_Witness ==
    /\ eh_call.op = "HandleError"
    /\ eh_call.code = "RANGE_PIVOT"
    /\ throttle_map["NAN_INF"].count > 0
    /\ current_strategy_ = "PARAMETER_CORRECTION"


\* C28: while no Initialize call has returned true (none was made, or every
\* one made so far failed), a ProcessFrame call returns false, logs exactly
\* one SCHEMA_MISSING error that becomes the last error and is appended to
\* the history, and leaves the statistics and the output as they were.
C28_FrameBeforeInitialize ==
    [][(pr_call'.op = "ProcessFrame" /\ init_seen # "ok")
        => /\ pr_ret' = FALSE
           /\ pr_logged' = <<Report("SCHEMA_MISSING")>>
           /\ error_history' = LogErrors(error_history, pr_logged')
           /\ last_error' = LastErrorAfter(last_error, pr_logged')
           /\ current_stats' = current_stats
           /\ output' = output]_vars

\* A ProcessFrame call made after one or more Initialize calls that all
\* failed: it returned false with SCHEMA_MISSING and the statistics are
\* still those of construction.
C28_Witness ==
    /\ init_seen = "failed"
    /\ pr_call.op = "ProcessFrame"
    /\ pr_ret = FALSE
    /\ LoggedCode("SCHEMA_MISSING")
    /\ current_stats = StatisticsReset


\* C29: in every state where the processor is initialized, its active
\* parameter bundle satisfies CphParams::IsValid (every float field finite
\* and inside its range, the fields of the curve that is not selected
\* included), whatever Initialize, mode-setting, ProcessFrame and other
\* calls came before.
C29_ActiveParamsValid == initialized => IsValid(current_params)

\* The last call was a successful Initialize with a PPR bundle whose rlog_a
\* is +Inf (a field ValidateCphParams does not look at for PPR), and the
\* active bundle holds the fallback 8.5 in its place.
C29_Witness ==
    /\ pr_call.op = "Initialize"
    /\ pr_call.params.curve = "PPR"
    /\ pr_call.params.rlog_a = PInf
    /\ pr_ret = TRUE
    /\ initialized
    /\ current_params.rlog_a = FixDefault["rlog_a"]

====
